---- MODULE Spec2Model ----
(***************************************************************************)
(* Model of the bug-to-version assignment and bug-composition pipeline of *)
(* InEx-Bug-Agent: tools/package_evolution_tracker.py and                 *)
(* tools/package_health_dashboard.py.                                     *)
(*                                                                         *)
(* Conventions.  A timestamp is an integer number of ticks, TicksPerDay   *)
(* ticks to the calendar day; the 'YYYY-MM-DD' prefix of a timestamp      *)
(* string is modelled by the day number, whose integer order is the       *)
(* order of the date strings.  A percentage is kept in tenths of a point  *)
(* (33.3% is 333), because every percentage of the program went through   *)
(* round(x, 1).  A version id is a positive integer n standing for the    *)
(* non-empty string "n.0.0".                                              *)
(***************************************************************************)
EXTENDS Integers, Sequences, FiniteSets, TLC

\* ---------------------------------------------------------------- bounds
MaxVersions == 3
MaxBugs == 2
MaxTime == 2
TicksPerDay == 2

\* ------------------------------------------------------------- variables
VARIABLES
    pc,                \* position of the running analysis
    version_timeline,  \* the sorted list handed to assign_bugs_to_versions
    bugs,              \* the list of loaded bugs
    idx,               \* number of bugs the loop of assign_bugs_to_versions has consumed
    bugs_by_version,   \* the defaultdict, as a list of entries in insertion order
    unassigned,        \* the counter of bugs filed before the first version
    results            \* the return value of analyze_version_composition

evoVars == <<version_timeline, bugs, idx, bugs_by_version, unassigned, results>>

VARIABLES
    bucket,            \* a bucket of bugs handed to the aggregation
    snapshot,          \* the return value of calculate_composition
    version_snapshot,  \* the record analyze_version_composition builds for the bucket
    bug_ratios         \* the return value of calculate_bug_ratios for the bucket

compVars == <<bucket, snapshot, version_snapshot, bug_ratios>>

VARIABLES
    caller,            \* who supplies the trend record: get_package_health or a direct call
    recent_comp,       \* the recent composition snapshot
    comparison_comp,   \* the comparison composition snapshot
    trends,            \* the trend record
    alerts,            \* the return value of generate_alerts
    health_score,      \* the return value of calculate_health_score, in tenths
    prev_comp,         \* the snapshot of the previous call of calculate_health_score
    prev_score         \* and the score it returned

healthVars == <<caller, recent_comp, comparison_comp, trends, alerts, health_score,
                prev_comp, prev_score>>

VARIABLES
    now,               \* datetime.now(timezone.utc) as get_package_health read it, in days
    months,            \* the months argument of get_package_health
    loaded,            \* the return value of load_package_bugs
    recent_bugs,       \* the bugs of the recent window
    comparison_bugs,   \* the bugs of the comparison window
    window_comp,       \* the two composition snapshots of the windows
    window_report      \* the trends, alerts and score get_package_health reports

windowVars == <<now, months, loaded, recent_bugs, comparison_bugs, window_comp,
                window_report>>

VARIABLES
    package_data,      \* the return value of fetch_all_package_versions
    classified_file,   \* the classified file track_package_evolution is pointed at
    exception,         \* the exception that left track_package_evolution, if any
    track_result       \* the 'error' field of the returned dict, or that it has none

trackVars == <<package_data, classified_file, exception, track_result>>

VARIABLES
    collected_file,    \* the lines of the collected issues file, in file order
    results_file,      \* the lines of the classification results file, in file order
    collected,         \* the dict of issues by (owner, repo, number), in insertion order
    classifications,   \* the dict of results by (owner, repo, number)
    merge_idx,         \* number of issues the merge loop has written
    output,            \* the lines written to the output file
    merged_count       \* the number of issues merge_classifications reports as merged

mergeVars == <<collected_file, results_file, collected, classifications, merge_idx, output,
               merged_count>>

VARIABLES
    all_packages,      \* the return value of extract_all_packages, in insertion order
    min_bugs,          \* the min_bugs argument of analyze_all_packages
    max_packages,      \* the max_packages argument, None for no limit
    filtered_packages, \* the packages left by the two filters, in iteration order
    batch_idx,         \* number of packages the fetch loop has gone through
    fetch_log,         \* what fetch_package_json returned in each iteration
    analysis_data,     \* the data points
    failed_packages    \* the names of the packages given up

batchVars == <<all_packages, min_bugs, max_packages, filtered_packages, batch_idx,
               fetch_log, analysis_data, failed_packages>>

VARIABLES
    data_points,       \* the production dependency counts of the data points, in list order
    empirical          \* the return value of calculate_empirical_thresholds

thresholdVars == <<data_points, empirical>>

VARIABLES
    correlation_file,  \* 'empirical_thresholds' of correlation_data_full.json, or no file
    risk_package,      \* production dependencies and extrinsic ratio of the analysed package
    risk_reports       \* the reports analyze_dependency_risk returned, in call order

riskVars == <<correlation_file, risk_package, risk_reports>>

VARIABLES
    repo_issues,       \* repo.get_issues(state='all'), or that the repository is not accessible
    limit,             \* the limit argument of IssueCollector.collect
    issue_idx,         \* number of listed issues the loop of collect has gone through
    collect_result     \* the list collect builds and returns

collectVars == <<repo_issues, limit, issue_idx, collect_result>>

VARIABLES
    classify_idx,      \* number of issues the loop of classify_from_file has classified
    returned           \* the classification the classifier returned, issue by issue

classifyVars == <<classify_idx, returned>>

VARIABLES
    fs,                \* the JSONL files of the working directory, by name
    last_call,         \* the tool the agent called last, its file and its outcome
    merges_ok,         \* the output files written by a merge that returned success
    calls              \* the number of tool calls so far

workflowVars == <<fs, last_call, merges_ok, calls>>

vars == <<pc, evoVars, compVars, healthVars, windowVars, trackVars, mergeVars, batchVars, thresholdVars, riskVars, collectVars, classifyVars, workflowVars>>

\* ------------------------------------------------------------ data model
None == 0

Classifications == {"Intrinsic", "Extrinsic", "Not  a Bug", "Unknown", "Error"}

PublishedStr(published_at) == published_at \div TicksPerDay

VersionRecord(version, published_at) ==
    [version |-> version,
     published_at |-> published_at,
     published_str |-> PublishedStr(published_at)]

RECURSIVE SeqSum(_)
SeqSum(s) == IF s = <<>> THEN 0 ELSE Head(s) + SeqSum(Tail(s))

\* ------------------------------------------------ assign_bugs_to_versions
\* The inner scan of one bug: the version last met whose published_at is
\* <= bug_dt, the scan stopping at the first later version.
RECURSIVE ScanTimelineFirst(_, _, _, _)
ScanTimelineFirst(timeline, k, bug_dt, assigned_version) ==
    IF k > Len(timeline) THEN assigned_version
    ELSE IF timeline[k].published_at <= bug_dt
         THEN timeline[k].version
         ELSE assigned_version

RECURSIVE ScanTimelineStrict(_, _, _, _)
ScanTimelineStrict(timeline, k, bug_dt, assigned_version) ==
    IF k > Len(timeline) THEN assigned_version
    ELSE IF timeline[k].published_at < bug_dt
         THEN ScanTimelineStrict(timeline, k + 1, bug_dt, timeline[k].version)
         ELSE assigned_version

RECURSIVE ScanTimelineNoCheck(_, _, _, _)
ScanTimelineNoCheck(timeline, k, bug_dt, assigned_version) ==
    IF k > Len(timeline) THEN assigned_version
    ELSE ScanTimelineNoCheck(timeline, k + 1, bug_dt, timeline[k].version)

RECURSIVE ScanTimeline(_, _, _, _)
ScanTimeline(timeline, k, bug_dt, assigned_version) ==
    IF k > Len(timeline) THEN assigned_version
    ELSE IF timeline[k].published_at <= bug_dt
         THEN ScanTimeline(timeline, k + 1, bug_dt, timeline[k].version)
         ELSE assigned_version

AssignedVersion(bug, timeline) == ScanTimeline(timeline, 1, bug.created_dt, None)

HasKey(dict, version) == \E i \in 1..Len(dict) : dict[i].version = version

\* a slip that rebinds the list instead of appending to it
DictOverwrite(dict, version, bug) ==
    IF HasKey(dict, version)
    THEN [i \in 1..Len(dict) |->
            IF dict[i].version = version
            THEN [dict[i] EXCEPT !.bugs = <<bug>>]
            ELSE dict[i]]
    ELSE Append(dict, [version |-> version, bugs |-> <<bug>>])

\* bugs_by_version[version].append(bug) on a defaultdict(list)
DictAppend(dict, version, bug) ==
    IF HasKey(dict, version)
    THEN [i \in 1..Len(dict) |->
            IF dict[i].version = version
            THEN [dict[i] EXCEPT !.bugs = Append(@, bug)]
            ELSE dict[i]]
    ELSE Append(dict, [version |-> version, bugs |-> <<bug>>])

\* ------------------------------------------------------------ aggregation
\* bug.get('final_classification', 'Unknown'): a record without the key
\* counts as Unknown
MissingKey == "<no final_classification>"

GetClassification(bug) ==
    IF bug.final_classification = MissingKey THEN "Unknown" ELSE bug.final_classification

\* counts[classification] after the counting loop
CountOf(bugList, classification) ==
    Cardinality({i \in 1..Len(bugList) : GetClassification(bugList[i]) = classification})

\* round(x, 1) of x = num / den tenths of a point, den > 0.  A tie (fraction
\* exactly one half) needs a total that is a multiple of 16: the quotient is
\* then an exact binary fraction and Python rounds it half to even.
RoundTenths(num, den) ==
    LET q == num \div den
        r2 == 2 * (num % den)
    IN  IF r2 < den THEN q
        ELSE IF r2 > den THEN q + 1
        ELSE IF q % 2 = 0 THEN q ELSE q + 1

\* count / total * 100 rounded to whole points, round(x) for round(x, 1)
PctWholePoints(count, total) ==
    IF total = 0
    THEN [raised |-> TRUE, value |-> 0]
    ELSE [raised |-> FALSE, value |-> 10 * RoundTenths(count * 100, total)]

\* count / total * 100, rounded: raises ZeroDivisionError when total is 0
Pct(count, total) ==
    IF total = 0
    THEN [raised |-> TRUE, value |-> 0]
    ELSE [raised |-> FALSE, value |-> RoundTenths(count * 1000, total)]

\* (count / total * 100) if total > 0 else 0
GuardedPct(count, total) ==
    IF total > 0 THEN Pct(count, total) ELSE [raised |-> FALSE, value |-> 0]

\* One iteration of the loop of analyze_version_composition.
VersionAnalysis(entry, metadata) ==
    LET total == Len(entry.bugs)
        n(c) == CountOf(entry.bugs, c)
        intrinsic_pct == GuardedPct(n("Intrinsic"), total)
        extrinsic_pct == GuardedPct(n("Extrinsic"), total)
        not_bug_pct == GuardedPct(n("Not  a Bug"), total)
        unknown_pct == GuardedPct(n("Unknown"), total)
    IN  [version |-> entry.version,
         published_at |-> metadata.published_str,
         raised |-> intrinsic_pct.raised \/ extrinsic_pct.raised
                    \/ not_bug_pct.raised \/ unknown_pct.raised,
         total_bugs |-> total,
         counts |-> [intrinsic |-> n("Intrinsic"), extrinsic |-> n("Extrinsic"),
                     not_bug |-> n("Not  a Bug"), unknown |-> n("Unknown")],
         percentages |-> [intrinsic |-> intrinsic_pct.value,
                          extrinsic |-> extrinsic_pct.value,
                          not_bug |-> not_bug_pct.value,
                          unknown |-> unknown_pct.value]]

\* calculate_composition without its early return for an empty list
CompositionNoEarlyReturn(bugList) ==
    LET total == Len(bugList)
        n(c) == CountOf(bugList, c)
    IN  [raised |-> Pct(n("Intrinsic"), total).raised,
         total |-> total,
         intrinsic |-> n("Intrinsic"), extrinsic |-> n("Extrinsic"),
         not_bug |-> n("Not  a Bug"), unknown |-> n("Unknown"),
         intrinsic_pct |-> Pct(n("Intrinsic"), total).value,
         extrinsic_pct |-> Pct(n("Extrinsic"), total).value,
         not_bug_pct |-> Pct(n("Not  a Bug"), total).value,
         unknown_pct |-> Pct(n("Unknown"), total).value]

calculate_composition(bugList) ==
    IF bugList = <<>>
    THEN [raised |-> FALSE, total |-> 0,
          intrinsic |-> 0, extrinsic |-> 0, not_bug |-> 0, unknown |-> 0,
          intrinsic_pct |-> 0, extrinsic_pct |-> 0,
          not_bug_pct |-> 0, unknown_pct |-> 0]
    ELSE LET total == Len(bugList)
             n(c) == CountOf(bugList, c)
         IN  [raised |-> Pct(n("Intrinsic"), total).raised,
              total |-> total,
              intrinsic |-> n("Intrinsic"), extrinsic |-> n("Extrinsic"),
              not_bug |-> n("Not  a Bug"), unknown |-> n("Unknown"),
              intrinsic_pct |-> Pct(n("Intrinsic"), total).value,
              extrinsic_pct |-> Pct(n("Extrinsic"), total).value,
              not_bug_pct |-> Pct(n("Not  a Bug"), total).value,
              unknown_pct |-> Pct(n("Unknown"), total).value]

\* version_metadata.get(version): the timeline record of that version id
VersionMetadata(timeline, version) ==
    LET i == CHOOSE i \in 1..Len(timeline) : timeline[i].version = version
    IN  timeline[i]

\* list.sort(key=published_at): stable insertion into a sorted list
RECURSIVE InsertByPublished(_, _)
InsertByPublished(sorted, r) ==
    IF sorted = <<>> THEN <<r>>
    ELSE IF Head(sorted).published_at <= r.published_at
         THEN <<Head(sorted)>> \o InsertByPublished(Tail(sorted), r)
         ELSE <<r>> \o sorted

RECURSIVE SortByPublished(_)
SortByPublished(s) ==
    IF s = <<>> THEN <<>>
    ELSE InsertByPublished(SortByPublished(SubSeq(s, 1, Len(s) - 1)), s[Len(s)])

analyze_version_composition(dict, timeline) ==
    SortByPublished([i \in 1..Len(dict) |->
        VersionAnalysis(dict[i], VersionMetadata(timeline, dict[i].version))])

\* count / total * 100 without rounding, as the fraction num / den
Ratio(count, total) ==
    IF total > 0 THEN [num |-> count * 100, den |-> total] ELSE [num |-> 0, den |-> 1]

\* the not-a-bug count looked up under 'Not a Bug', with one space
BugRatiosOneSpace(bugList) ==
    LET total == Len(bugList)
        n(c) == CountOf(bugList, c)
    IN  [total |-> total,
         intrinsic_count |-> n("Intrinsic"),
         extrinsic_count |-> n("Extrinsic"),
         not_bug_count |-> n("Not a Bug"),
         unknown_count |-> n("Unknown"),
         intrinsic_ratio |-> Ratio(n("Intrinsic"), total),
         extrinsic_ratio |-> Ratio(n("Extrinsic"), total),
         not_bug_ratio |-> Ratio(n("Not a Bug"), total),
         unknown_ratio |-> Ratio(n("Unknown"), total)]

calculate_bug_ratios(bugList) ==
    LET total == Len(bugList)
        n(c) == CountOf(bugList, c)
    IN  [total |-> total,
         intrinsic_count |-> n("Intrinsic"),
         extrinsic_count |-> n("Extrinsic"),
         not_bug_count |-> n("Not  a Bug"),
         unknown_count |-> n("Unknown"),
         intrinsic_ratio |-> Ratio(n("Intrinsic"), total),
         extrinsic_ratio |-> Ratio(n("Extrinsic"), total),
         not_bug_ratio |-> Ratio(n("Not  a Bug"), total),
         unknown_ratio |-> Ratio(n("Unknown"), total)]

\* ------------------------------------------------------- idle components
IdleEvolution ==
    /\ version_timeline = <<>>
    /\ bugs = <<>>
    /\ idx = 0
    /\ bugs_by_version = <<>>
    /\ unassigned = 0
    /\ results = <<>>

NoSnapshot == [raised |-> FALSE, total |-> 0]

NoRatios == [total |-> 0]

IdleComposition ==
    /\ bucket = <<>>
    /\ snapshot = NoSnapshot
    /\ version_snapshot = NoSnapshot
    /\ bug_ratios = NoRatios

NoComp == [extrinsic_pct |-> 0, intrinsic_pct |-> 0]

NoTrends == [extrinsic_change |-> 0, intrinsic_change |-> 0,
             extrinsic_trend |-> "STABLE", intrinsic_trend |-> "STABLE"]

IdleHealth ==
    /\ caller = "none"
    /\ recent_comp = NoComp
    /\ comparison_comp = NoComp
    /\ trends = NoTrends
    /\ alerts = <<>>
    /\ health_score = 0
    /\ prev_comp = NoComp
    /\ prev_score = 0

NoWindowComp == [recent |-> NoSnapshot, comparison |-> NoSnapshot]

NoReport == [trends |-> NoTrends, alerts |-> <<>>, health_score |-> 0]

IdleWindow ==
    /\ now = 0
    /\ months = 0
    /\ loaded = <<>>
    /\ recent_bugs = <<>>
    /\ comparison_bugs = <<>>
    /\ window_comp = NoWindowComp
    /\ window_report = NoReport

\* fetch_all_package_versions returned None
NoPackageData == [fetched |-> FALSE, has_versions |-> FALSE, versions |-> <<>>]

NoFile == [exists |-> FALSE, records |-> <<>>]

IdleTrack ==
    /\ package_data = NoPackageData
    /\ classified_file = NoFile
    /\ exception = "none"
    /\ track_result = "none"

IdleMerge ==
    /\ collected_file = <<>>
    /\ results_file = <<>>
    /\ collected = <<>>
    /\ classifications = <<>>
    /\ merge_idx = 0
    /\ output = <<>>
    /\ merged_count = 0

IdleBatch ==
    /\ all_packages = <<>>
    /\ min_bugs = 0
    /\ max_packages = None
    /\ filtered_packages = <<>>
    /\ batch_idx = 0
    /\ fetch_log = <<>>
    /\ analysis_data = <<>>
    /\ failed_packages = <<>>

NoEmpirical ==
    [is_none |-> TRUE, low_threshold |-> 0, high_threshold |-> 0,
     low_risk |-> <<>>, medium_risk |-> <<>>, high_risk |-> <<>>]

IdleThresholds ==
    /\ data_points = <<>>
    /\ empirical = NoEmpirical

\* correlation_data_full.json does not exist, or holds null thresholds
NoThresholds ==
    [present |-> FALSE, low_max |-> 0, medium_max |-> 0,
     avg_extrinsic |-> [LOW |-> 0, MEDIUM |-> 0, HIGH |-> 0]]

IdleRisk ==
    /\ correlation_file = NoThresholds
    /\ risk_package = [production |-> 0, extrinsic_ratio |-> 0]
    /\ risk_reports = <<>>

IdleCollect ==
    /\ repo_issues = [accessible |-> FALSE, issues |-> <<>>]
    /\ limit = 0
    /\ issue_idx = 0
    /\ collect_result = <<>>

IdleClassify ==
    /\ classify_idx = 0
    /\ returned = <<>>

NoCall == [tool |-> "none", file |-> "", outcome |-> "none"]

IdleWorkflow ==
    /\ fs = <<>>
    /\ last_call = NoCall
    /\ merges_ok = {}
    /\ calls = 0

\* ------------------------------------------------- inputs of the evolution
Times == 0..MaxTime

InputClassifications == Classifications \cup {MissingKey}

\* every list of at most n elements of S
SeqsUpTo(S, n) == UNION {[1..k -> S] : k \in 0..n}

\* the timeline whose i-th version, "i.0.0", was published at times[i]
TimelineOf(times) == [i \in 1..Len(times) |-> VersionRecord(i, times[i])]

SortedTimelines ==
    {TimelineOf(times) : times \in
        {t \in SeqsUpTo(Times, MaxVersions) :
            \A i \in 1..(Len(t) - 1) : t[i] <= t[i + 1]}}

\* a loaded bug: its issue number, parsed creation time and classification
Bug(number, created_dt, final_classification) ==
    [number |-> number, created_dt |-> created_dt,
     final_classification |-> final_classification]

BugListOf(inputs) ==
    [i \in 1..Len(inputs) |-> Bug(i, inputs[i][1], inputs[i][2])]

\* classifications of the bugs of the evolution: a counted value, a value
\* outside the four counted ones and the absent key
EvolutionClassifications == {"Extrinsic", "Error", MissingKey}

BugLists ==
    {BugListOf(inputs) : inputs \in SeqsUpTo(Times \X EvolutionClassifications, MaxBugs)}

\* The scenario of the specification, in days since 2019-01-01:
\* v1.0.0@2019-01-01, v2.0.0@2020-01-01, v3.0.0@2021-06-01 and bugs dated
\* 2019-06-01, 2020-03-01, 2021-01-01.
ScenarioDays == <<0, 365, 882>>

ScenarioBugDays == <<151, 425, 731>>

ScenarioTimeline == TimelineOf([i \in 1..3 |-> ScenarioDays[i] * TicksPerDay])

ScenarioBugs ==
    [i \in 1..3 |-> Bug(i, ScenarioBugDays[i] * TicksPerDay, "Intrinsic")]

InitEvolution ==
    /\ pc = "assign"
    /\ \/ /\ version_timeline \in SortedTimelines
          /\ bugs \in BugLists
       \/ /\ version_timeline = ScenarioTimeline
          /\ bugs = ScenarioBugs
    /\ idx = 0
    /\ bugs_by_version = <<>>
    /\ unassigned = 0
    /\ results = <<>>
    /\ IdleComposition
    /\ IdleHealth
    /\ IdleWindow
    /\ IdleTrack
    /\ IdleMerge
    /\ IdleBatch
    /\ IdleThresholds
    /\ IdleRisk
    /\ IdleCollect
    /\ IdleClassify
    /\ IdleWorkflow

\* ------------------------------------------------ actions of the evolution
\* one iteration of "for bug in bugs" of assign_bugs_to_versions
AssignBug ==
    /\ pc = "assign"
    /\ idx < Len(bugs)
    /\ LET bug == bugs[idx + 1]
           assigned_version == AssignedVersion(bug, version_timeline)
       IN  IF assigned_version # None
           THEN /\ bugs_by_version' = DictAppend(bugs_by_version, assigned_version, bug)
                /\ UNCHANGED unassigned
           ELSE /\ unassigned' = unassigned + 1
                /\ UNCHANGED bugs_by_version
    /\ idx' = idx + 1
    /\ UNCHANGED <<pc, version_timeline, bugs, results, compVars, healthVars, windowVars,
                   trackVars, mergeVars, batchVars, thresholdVars, riskVars,
                   collectVars, classifyVars, workflowVars>>

\* the loop is over: return dict(bugs_by_version)
AssignReturn ==
    /\ pc = "assign"
    /\ idx = Len(bugs)
    /\ pc' = "assigned"
    /\ UNCHANGED <<evoVars, compVars, healthVars, windowVars, trackVars, mergeVars, batchVars,
                   thresholdVars, riskVars, collectVars, classifyVars,
                   workflowVars>>

\* track_package_evolution: if not bugs_by_version: return {'error': ...}
AssignFailed ==
    /\ pc = "assigned"
    /\ bugs_by_version = <<>>
    /\ pc' = "error"
    /\ UNCHANGED <<evoVars, compVars, healthVars, windowVars, trackVars, mergeVars, batchVars,
                   thresholdVars, riskVars, collectVars, classifyVars,
                   workflowVars>>

AnalyzeVersionComposition ==
    /\ pc = "assigned"
    /\ bugs_by_version # <<>>
    /\ results' = analyze_version_composition(bugs_by_version, version_timeline)
    /\ pc' = "done"
    /\ UNCHANGED <<version_timeline, bugs, idx, bugs_by_version, unassigned,
                   compVars, healthVars, windowVars, trackVars, mergeVars,
                   batchVars, thresholdVars, riskVars, collectVars,
                   classifyVars, workflowVars>>

NextEvolution ==
    \/ AssignBug
    \/ AssignReturn
    \/ AssignFailed
    \/ AnalyzeVersionComposition

SpecEvolution == InitEvolution /\ [][NextEvolution]_vars

\* ------------------------------------------------ properties: assignment
PublishedAtOf(version) == VersionMetadata(version_timeline, version).published_at

\* bug number k is in the list of that version
InVersion(k, version) ==
    \E i \in 1..Len(bugs_by_version) :
        /\ bugs_by_version[i].version = version
        /\ \E j \in 1..Len(bugs_by_version[i].bugs) :
               bugs_by_version[i].bugs[j].number = k

\* how many times bug number k occurs in the lists of all versions
Occurrences(k) ==
    SeqSum([i \in 1..Len(bugs_by_version) |->
        Cardinality({j \in 1..Len(bugs_by_version[i].bugs) :
                        bugs_by_version[i].bugs[j].number = k})])

\* bug k was created strictly before the earliest published_at
BeforeFirst(k) ==
    /\ version_timeline # <<>>
    /\ \A v \in 1..Len(version_timeline) :
           bugs[k].created_dt < version_timeline[v].published_at

\* bug k was created at or after the earliest published_at
Eligible(k) ==
    \E v \in 1..Len(version_timeline) :
        version_timeline[v].published_at <= bugs[k].created_dt

\* C1: each bug is in the list of at most one version, that version was
\* published at or before the bug's creation, and a bug created strictly
\* before the earliest published_at is in no list.
C1_AssignmentSafe ==
    /\ \A k \in 1..Len(bugs) : Occurrences(k) <= 1
    /\ \A i \in 1..Len(bugs_by_version) :
         \A j \in 1..Len(bugs_by_version[i].bugs) :
            LET b == bugs_by_version[i].bugs[j]
            IN  /\ b.number \in 1..idx
                /\ b = bugs[b.number]
                /\ PublishedAtOf(bugs_by_version[i].version) <= b.created_dt
    /\ \A k \in 1..Len(bugs) : BeforeFirst(k) => Occurrences(k) = 0

C1_Witness ==
    /\ pc = "assigned"
    /\ Len(version_timeline) >= 2
    /\ \E k \in 1..Len(bugs) : Occurrences(k) = 1
    /\ \E k \in 1..Len(bugs) : BeforeFirst(k)

ScenarioAssignment ==
    <<[version |-> 1, bugs |-> <<ScenarioBugs[1]>>],
      [version |-> 2, bugs |-> <<ScenarioBugs[2], ScenarioBugs[3]>>]>>

\* C2: a bug assigned to version v has no version published at or before
\* the bug's creation and strictly later than v; the three bugs of the
\* scenario go to v1.0.0, v2.0.0 and v2.0.0.
C2_LatestEligible ==
    /\ \A i \in 1..Len(bugs_by_version) :
         \A j \in 1..Len(bugs_by_version[i].bugs) :
            LET b == bugs_by_version[i].bugs[j]
            IN  ~ \E v \in 1..Len(version_timeline) :
                    /\ version_timeline[v].published_at <= b.created_dt
                    /\ version_timeline[v].published_at
                           > PublishedAtOf(bugs_by_version[i].version)
    /\ (pc = "assigned" /\ version_timeline = ScenarioTimeline /\ bugs = ScenarioBugs)
          => bugs_by_version = ScenarioAssignment

C2_Witness ==
    /\ pc = "assigned"
    /\ version_timeline = ScenarioTimeline
    /\ bugs = ScenarioBugs
    /\ Len(bugs_by_version) = 2

EligibleIn(version) == {k \in 1..Len(bugs) : Eligible(k) /\ InVersion(k, version)}

EligibleOf(version, classification) ==
    {k \in EligibleIn(version) : GetClassification(bugs[k]) = classification}

\* C3: once the assignment returned, every bug created at or after the
\* earliest published_at is in exactly one list; the total_bugs of the
\* returned records sum to the number of those bugs, and the counts and
\* percentages of every record are those of the eligible bugs of its
\* version alone.
C3_EligibleCounted ==
    /\ pc \in {"assigned", "error", "done"} =>
          \A k \in 1..Len(bugs) : Eligible(k) => Occurrences(k) = 1
    /\ pc = "done" =>
          /\ SeqSum([i \in 1..Len(results) |-> results[i].total_bugs])
                = Cardinality({k \in 1..Len(bugs) : Eligible(k)})
          /\ \A i \in 1..Len(results) :
                LET r == results[i]
                    n(c) == Cardinality(EligibleOf(r.version, c))
                    total == Cardinality(EligibleIn(r.version))
                IN  /\ r.total_bugs = total
                    /\ total > 0
                    /\ r.counts = [intrinsic |-> n("Intrinsic"),
                                   extrinsic |-> n("Extrinsic"),
                                   not_bug |-> n("Not  a Bug"),
                                   unknown |-> n("Unknown")]
                    /\ r.percentages =
                          [intrinsic |-> RoundTenths(n("Intrinsic") * 1000, total),
                           extrinsic |-> RoundTenths(n("Extrinsic") * 1000, total),
                           not_bug |-> RoundTenths(n("Not  a Bug") * 1000, total),
                           unknown |-> RoundTenths(n("Unknown") * 1000, total)]

C3_Witness ==
    /\ pc = "done"
    /\ \E k \in 1..Len(bugs) : BeforeFirst(k)
    /\ \E k \in 1..Len(bugs) : Eligible(k)
    /\ results # <<>>

\* the highest index of the timeline whose version was published at time t
LastIndexAt(t) ==
    CHOOSE m \in 1..Len(version_timeline) :
        /\ version_timeline[m].published_at = t
        /\ \A n \in (m + 1)..Len(version_timeline) :
               version_timeline[n].published_at # t

\* versions v < w share a published_at that is <= the creation of bug k,
\* and no later-published version is eligible for bug k
TieCase(k, v, w) ==
    /\ v < w
    /\ version_timeline[v].published_at = version_timeline[w].published_at
    /\ version_timeline[w].published_at <= bugs[k].created_dt
    /\ ~ \E u \in 1..Len(version_timeline) :
            /\ version_timeline[u].published_at > version_timeline[w].published_at
            /\ version_timeline[u].published_at <= bugs[k].created_dt

\* C4: among versions sharing the published_at a bug is assigned at, the
\* bug goes to the one with the highest index of the timeline.
C4_TieLastIndex ==
    \A k \in 1..idx :
        \A v, w \in 1..Len(version_timeline) :
            TieCase(k, v, w) =>
                InVersion(k, version_timeline[
                    LastIndexAt(version_timeline[w].published_at)].version)

C4_Witness ==
    /\ pc = "assigned"
    /\ \E k \in 1..idx :
         \E v, w \in 1..Len(version_timeline) :
            /\ TieCase(k, v, w)
            /\ w < Len(version_timeline)
            /\ bugs[k].created_dt = version_timeline[w].published_at

\* ------------------------------------------------ the aggregation alone
MaxBucket == 3

\* a record of the classified file, of which the aggregation reads one key
Buckets ==
    {[i \in 1..Len(cs) |-> [final_classification |-> cs[i]]] :
        cs \in SeqsUpTo(InputClassifications, MaxBucket)}

InitComposition ==
    /\ pc = "composition"
    /\ bucket \in Buckets
    /\ snapshot = NoSnapshot
    /\ version_snapshot = NoSnapshot
    /\ bug_ratios = NoRatios
    /\ IdleEvolution
    /\ IdleHealth
    /\ IdleWindow
    /\ IdleTrack
    /\ IdleMerge
    /\ IdleBatch
    /\ IdleThresholds
    /\ IdleRisk
    /\ IdleCollect
    /\ IdleClassify
    /\ IdleWorkflow

CalculateComposition ==
    /\ pc = "composition"
    /\ snapshot' = calculate_composition(bucket)
    /\ pc' = "version_composition"
    /\ UNCHANGED <<bucket, version_snapshot, bug_ratios, evoVars, healthVars, windowVars, trackVars,
                   mergeVars, batchVars, thresholdVars, riskVars,
                   collectVars, classifyVars, workflowVars>>

\* the body of the loop of analyze_version_composition on that bucket
AnalyzeBucket ==
    /\ pc = "version_composition"
    /\ version_snapshot' =
          VersionAnalysis([version |-> 1, bugs |-> bucket], VersionRecord(1, 0))
    /\ pc' = "composed"
    /\ UNCHANGED <<bucket, snapshot, bug_ratios, evoVars, healthVars, windowVars,
                   trackVars, mergeVars, batchVars, thresholdVars, riskVars,
                   collectVars, classifyVars, workflowVars>>

CalculateBugRatios ==
    /\ pc = "composed"
    /\ bug_ratios' = calculate_bug_ratios(bucket)
    /\ pc' = "ratios_done"
    /\ UNCHANGED <<bucket, snapshot, version_snapshot, evoVars, healthVars, windowVars,
                   trackVars, mergeVars, batchVars, thresholdVars, riskVars,
                   collectVars, classifyVars, workflowVars>>

NextComposition ==
    \/ CalculateComposition
    \/ AnalyzeBucket
    \/ CalculateBugRatios

SpecComposition == InitComposition /\ [][NextComposition]_vars

ZeroCounts == [intrinsic |-> 0, extrinsic |-> 0, not_bug |-> 0, unknown |-> 0]

\* C10: for an empty bucket calculate_composition and the per-version
\* aggregation return total 0, every count 0 and every percentage 0, and
\* neither raises for any bucket.
C10_EmptyBucketAllZero ==
    /\ ~ snapshot.raised
    /\ ~ version_snapshot.raised
    /\ (pc \in {"version_composition", "composed"} /\ bucket = <<>>) =>
          /\ snapshot.total = 0
          /\ <<snapshot.intrinsic, snapshot.extrinsic,
               snapshot.not_bug, snapshot.unknown>> = <<0, 0, 0, 0>>
          /\ <<snapshot.intrinsic_pct, snapshot.extrinsic_pct,
               snapshot.not_bug_pct, snapshot.unknown_pct>> = <<0, 0, 0, 0>>
    /\ (pc = "composed" /\ bucket = <<>>) =>
          /\ version_snapshot.total_bugs = 0
          /\ version_snapshot.counts = ZeroCounts
          /\ version_snapshot.percentages = ZeroCounts

C10_Witness ==
    /\ pc = "composed"
    /\ bucket = <<>>
    /\ version_snapshot.total_bugs = 0
    /\ snapshot.total = 0

\* the four values a classified record is meant to carry
FourValues == {"Intrinsic", "Extrinsic", "Not  a Bug", "Unknown"}

AllOfFour(bugList) ==
    \A i \in 1..Len(bugList) : bugList[i].final_classification \in FourValues

\* each round(x, 1) is off by at most 0.05, four of them by at most 0.2
RoundingSlack == 2

SumsToHundred(a, b, c, d) ==
    /\ a + b + c + d >= 1000 - RoundingSlack
    /\ a + b + c + d <= 1000 + RoundingSlack

\* C11: for a non-empty bucket whose classifications are among the four
\* values, the four percentages of calculate_composition and of the
\* per-version aggregation, each rounded to one decimal, sum to 100.0 up to
\* the error of the four roundings (0.2).
C11_PercentagesSum ==
    (bucket # <<>> /\ AllOfFour(bucket)) =>
        /\ pc \in {"version_composition", "composed"} =>
              SumsToHundred(snapshot.intrinsic_pct, snapshot.extrinsic_pct,
                            snapshot.not_bug_pct, snapshot.unknown_pct)
        /\ pc = "composed" =>
              SumsToHundred(version_snapshot.percentages.intrinsic,
                            version_snapshot.percentages.extrinsic,
                            version_snapshot.percentages.not_bug,
                            version_snapshot.percentages.unknown)

\* a bucket of three classes, one bug each: 33.3 + 33.3 + 33.3 = 99.9
C11_Witness ==
    /\ pc = "composed"
    /\ bucket # <<>>
    /\ AllOfFour(bucket)
    /\ snapshot.intrinsic_pct + snapshot.extrinsic_pct
         + snapshot.not_bug_pct + snapshot.unknown_pct = 999
    /\ version_snapshot.percentages.intrinsic + version_snapshot.percentages.extrinsic
         + version_snapshot.percentages.not_bug + version_snapshot.percentages.unknown = 999

\* ---------------------------------------- doubles holding a percentage
\* A percentage of n tenths is held as the double nearest to n / 10.  With
\* 2^e <= n / 10 < 2^(e + 1) that double is M * 2^(e - 52) for the integer M
\* nearest to n * 2^(52 - e) / 10, so its error is DoubleError(n) units of
\* 1 / (10 * 2^DoubleScale(n)), the residue of n * 2^(52 - e) modulo 10.
RECURSIVE ExponentUp(_, _)
ExponentUp(n, m) == IF 2 * m <= n THEN 1 + ExponentUp(n, 2 * m) ELSE 0

RECURSIVE ExponentDown(_)
ExponentDown(n) == IF n >= 10 THEN 0 ELSE 1 + ExponentDown(2 * n)

\* floor(log2(n / 10)) for n >= 1
BinaryExponent(n) == IF n >= 10 THEN ExponentUp(n, 10) ELSE 0 - ExponentDown(n)

MantissaBits == 52

MaxScale == 56

DoubleScale(n) == IF n = 0 THEN MaxScale ELSE MantissaBits - BinaryExponent(n)

RECURSIVE Pow2(_)
Pow2(k) == IF k = 0 THEN 1 ELSE 2 * Pow2(k - 1)

\* 2^k modulo 10, k >= 1
Pow2Mod10(k) == <<2, 4, 8, 6>>[((k - 1) % 4) + 1]

DoubleError(n) ==
    LET residue == ((n % 10) * Pow2Mod10(DoubleScale(n))) % 10
    IN  IF residue < 5 THEN 0 - residue ELSE 10 - residue

\* the error of the double nearest n / 10, in units of 1 / (10 * 2^MaxScale)
ScaledError(n) == DoubleError(n) * Pow2(MaxScale - DoubleScale(n))

\* a - b > 5 for the doubles of a and b tenths.  The exact difference of
\* the two doubles is rounded to a double; 5.0 has an even mantissa and the
\* next double is 5 + 2^-50, so the result exceeds 5.0 exactly when the
\* difference exceeds 5 + 2^-51, that is 10 * 2^5 units of the scaled error.
DeltaAboveFive(a, b) ==
    \/ a - b > 50
    \/ /\ a - b = 50
       /\ ScaledError(a) - ScaledError(b) > 10 * Pow2(MaxScale - 51)

\* a - b < -5: negation is exact in binary floating point
DeltaBelowMinusFive(a, b) == DeltaAboveFive(b, a)

\* ---------------------------------------------------------- calculate_trends
TrendOf(recent_pct, comparison_pct) ==
    IF DeltaAboveFive(recent_pct, comparison_pct) THEN "INCREASING"
    ELSE IF DeltaBelowMinusFive(recent_pct, comparison_pct) THEN "DECREASING"
    ELSE "STABLE"

\* round(recent - comparison, 1): the error of the double difference is far
\* below a twentieth of a point, so the rounded change is the exact
\* difference of the two percentages
calculate_trends(recent, comparison) ==
    [extrinsic_change |-> recent.extrinsic_pct - comparison.extrinsic_pct,
     intrinsic_change |-> recent.intrinsic_pct - comparison.intrinsic_pct,
     extrinsic_trend |-> TrendOf(recent.extrinsic_pct, comparison.extrinsic_pct),
     intrinsic_trend |-> TrendOf(recent.intrinsic_pct, comparison.intrinsic_pct)]

\* ----------------------------------------------------------- generate_alerts
Abs(x) == IF x < 0 THEN 0 - x ELSE x

\* the message for a metric, as its words and the points it prints
Alert(metric, direction, points) ==
    [metric |-> metric, direction |-> direction, points |-> points]

NoChangeAlert == Alert("none", "No significant trend changes detected", 0)

AlertsNoFallback(t) ==
    (IF t.extrinsic_change > 50
        THEN <<Alert("Extrinsic", "increased", t.extrinsic_change)>> ELSE <<>>)
    \o (IF t.intrinsic_change > 50
        THEN <<Alert("Intrinsic", "increased", t.intrinsic_change)>> ELSE <<>>)
    \o (IF t.extrinsic_change < -50
        THEN <<Alert("Extrinsic", "decreased", Abs(t.extrinsic_change))>> ELSE <<>>)
    \o (IF t.intrinsic_change < -50
        THEN <<Alert("Intrinsic", "decreased", Abs(t.intrinsic_change))>> ELSE <<>>)

\* the four conditions taken metric by metric instead of direction by direction
AlertsByMetric(t) ==
    LET threshold_alerts ==
            (IF t.extrinsic_change > 50
                THEN <<Alert("Extrinsic", "increased", t.extrinsic_change)>> ELSE <<>>)
            \o (IF t.extrinsic_change < -50
                THEN <<Alert("Extrinsic", "decreased", Abs(t.extrinsic_change))>> ELSE <<>>)
            \o (IF t.intrinsic_change > 50
                THEN <<Alert("Intrinsic", "increased", t.intrinsic_change)>> ELSE <<>>)
            \o (IF t.intrinsic_change < -50
                THEN <<Alert("Intrinsic", "decreased", Abs(t.intrinsic_change))>> ELSE <<>>)
    IN  IF threshold_alerts = <<>> THEN <<NoChangeAlert>> ELSE threshold_alerts

generate_alerts(t) ==
    LET threshold_alerts ==
            (IF t.extrinsic_change > 50
                THEN <<Alert("Extrinsic", "increased", t.extrinsic_change)>> ELSE <<>>)
            \o (IF t.intrinsic_change > 50
                THEN <<Alert("Intrinsic", "increased", t.intrinsic_change)>> ELSE <<>>)
            \o (IF t.extrinsic_change < -50
                THEN <<Alert("Extrinsic", "decreased", Abs(t.extrinsic_change))>> ELSE <<>>)
            \o (IF t.intrinsic_change < -50
                THEN <<Alert("Intrinsic", "decreased", Abs(t.intrinsic_change))>> ELSE <<>>)
    IN  IF threshold_alerts = <<>> THEN <<NoChangeAlert>> ELSE threshold_alerts

\* ---------------------------------------------------- calculate_health_score
Max(a, b) == IF a >= b THEN a ELSE b

Min(a, b) == IF a <= b THEN a ELSE b

\* round(score, 1) of a score of s two-hundredths, in tenths.  The double
\* arithmetic of the score carries an error far below a two-hundredth, so
\* the result is the nearest tenth; when s lies exactly between two tenths
\* the error of the double decides, and either neighbour is possible.
RoundScore(s) ==
    LET q == s \div 20
        r == s % 20
    IN  IF r < 10 THEN {q} ELSE IF r > 10 THEN {q + 1} ELSE {q, q + 1}

\* the score before the clamp, in two-hundredths of a point
RawScore(recent, t) ==
    2000 - 10 * recent.extrinsic_pct - 5 * recent.intrinsic_pct
         - (IF t.extrinsic_change > 0 THEN 4 * t.extrinsic_change ELSE 0)
         - (IF t.intrinsic_change > 0 THEN 2 * t.intrinsic_change ELSE 0)

ScoreNoClamp(recent, t) == RoundScore(RawScore(recent, t))

ScoreIntrinsicAdded(recent, t) ==
    RoundScore(Max(200, Min(2000, RawScore(recent, t) + 10 * recent.intrinsic_pct)))

ScoreAlwaysPenalised(recent, t) ==
    RoundScore(Max(200, Min(2000,
        2000 - 10 * recent.extrinsic_pct - 5 * recent.intrinsic_pct
             - 4 * t.extrinsic_change - 2 * t.intrinsic_change)))

\* the set of values the call can return
calculate_health_score(recent, t) ==
    RoundScore(Max(200, Min(2000, RawScore(recent, t))))

\* ------------------------------------------- inputs of the health scoring
MaxTotal == 4

\* percentages at the thresholds of the trend rule and of the scenario
BoundaryPcts == {1, 33, 50, 51, 83, 300, 400}

\* the percentages a bucket of at most MaxTotal bugs shows, and the boundary ones
Pcts ==
    {RoundTenths(c * 1000, t) : <<c, t>> \in
        {ct \in (0..MaxTotal) \X (1..MaxTotal) : ct[1] <= ct[2]}}
    \cup BoundaryPcts

\* the two keys of a composition snapshot the scoring reads
Comps == [extrinsic_pct : Pcts, intrinsic_pct : Pcts]

TrendChanges == {-1000, -51, -50, -5, 0, 5, 50, 51, 1000}

LabelOf(change) ==
    IF change > 50 THEN "INCREASING" ELSE IF change < -50 THEN "DECREASING" ELSE "STABLE"

\* trend records handed to generate_alerts and calculate_health_score directly
TrendRecords ==
    {[extrinsic_change |-> ec, intrinsic_change |-> ic,
      extrinsic_trend |-> LabelOf(ec), intrinsic_trend |-> LabelOf(ic)] :
        ec \in TrendChanges, ic \in TrendChanges}

InitHealth ==
    /\ \/ /\ caller = "get_package_health"
          /\ pc = "trends"
          /\ recent_comp \in Comps
          /\ comparison_comp \in Comps
          /\ trends = NoTrends
       \/ /\ caller = "direct"
          /\ pc = "alerts"
          /\ recent_comp \in Comps
          /\ comparison_comp = NoComp
          /\ trends \in TrendRecords
    /\ alerts = <<>>
    /\ health_score = 0
    /\ prev_comp = NoComp
    /\ prev_score = 0
    /\ IdleEvolution
    /\ IdleComposition
    /\ IdleWindow
    /\ IdleTrack
    /\ IdleMerge
    /\ IdleBatch
    /\ IdleThresholds
    /\ IdleRisk
    /\ IdleCollect
    /\ IdleClassify
    /\ IdleWorkflow

\* ------------------------------------------- actions of the health scoring
CalculateTrends ==
    /\ pc = "trends"
    /\ trends' = calculate_trends(recent_comp, comparison_comp)
    /\ pc' = "alerts"
    /\ UNCHANGED <<caller, recent_comp, comparison_comp, alerts, health_score,
                   prev_comp, prev_score, evoVars, compVars, windowVars,
                   trackVars, mergeVars, batchVars, thresholdVars, riskVars,
                   collectVars, classifyVars, workflowVars>>

GenerateAlerts ==
    /\ pc = "alerts"
    /\ alerts' = generate_alerts(trends)
    /\ pc' = "score"
    /\ UNCHANGED <<caller, recent_comp, comparison_comp, trends, health_score,
                   prev_comp, prev_score, evoVars, compVars, windowVars,
                   trackVars, mergeVars, batchVars, thresholdVars, riskVars,
                   collectVars, classifyVars, workflowVars>>

CalculateHealthScore ==
    /\ pc = "score"
    /\ health_score' \in calculate_health_score(recent_comp, trends)
    /\ pc' = "scored"
    /\ UNCHANGED <<caller, recent_comp, comparison_comp, trends, alerts,
                   prev_comp, prev_score, evoVars, compVars, windowVars,
                   trackVars, mergeVars, batchVars, thresholdVars, riskVars,
                   collectVars, classifyVars, workflowVars>>

\* raised is snapshot with one of its two percentages raised
IsRaised(raised, snapshot0) ==
    /\ raised # snapshot0
    /\ \/ /\ raised.extrinsic_pct >= snapshot0.extrinsic_pct
          /\ raised.intrinsic_pct = snapshot0.intrinsic_pct
       \/ /\ raised.intrinsic_pct >= snapshot0.intrinsic_pct
          /\ raised.extrinsic_pct = snapshot0.extrinsic_pct

\* a second direct call with the same trend record and one percentage raised
CalculateHealthScoreRaised ==
    /\ pc = "scored"
    /\ caller = "direct"
    /\ \E raised \in Comps :
          /\ IsRaised(raised, recent_comp)
          /\ recent_comp' = raised
          /\ health_score' \in calculate_health_score(raised, trends)
    /\ prev_comp' = recent_comp
    /\ prev_score' = health_score
    /\ pc' = "rescored"
    /\ UNCHANGED <<caller, comparison_comp, trends, alerts, evoVars, compVars, windowVars,
                   trackVars, mergeVars, batchVars, thresholdVars, riskVars,
                   collectVars, classifyVars, workflowVars>>

NextHealth ==
    \/ CalculateTrends
    \/ GenerateAlerts
    \/ CalculateHealthScore
    \/ CalculateHealthScoreRaised

SpecHealth == InitHealth /\ [][NextHealth]_vars

\* ---------------------------------------------- properties: health scoring
\* C5: every score calculate_health_score returns lies within [1.0, 10.0].
C5_ScoreWithinBounds ==
    pc \in {"scored", "rescored"} => (health_score >= 10 /\ health_score <= 100)

C5_Witness ==
    /\ pc = "scored"
    /\ recent_comp.extrinsic_pct = 1000
    /\ trends.extrinsic_change = 1000
    /\ health_score = 10

\* C6: with the trend record and the other percentage held fixed, a call
\* with a raised extrinsic_pct or intrinsic_pct never returns a higher score.
C6_ScoreMonotone ==
    (pc = "rescored" /\ IsRaised(recent_comp, prev_comp)) => health_score <= prev_score

C6_Witness ==
    /\ pc = "rescored"
    /\ IsRaised(recent_comp, prev_comp)
    /\ recent_comp.intrinsic_pct > prev_comp.intrinsic_pct
    /\ health_score < prev_score
    /\ health_score > 10

\* the value of the formula before rounding, in two-hundredths of a point
FormulaValue ==
    LET penalty(change, weight) == IF change > 0 THEN weight * change ELSE 0
        raw == 2000 - 10 * recent_comp.extrinsic_pct - 5 * recent_comp.intrinsic_pct
                    - penalty(trends.extrinsic_change, 4)
                    - penalty(trends.intrinsic_change, 2)
    IN  IF raw < 200 THEN 200 ELSE IF raw > 2000 THEN 2000 ELSE raw

\* C7: the score is 10 - extrinsic_pct/2 - intrinsic_pct/4 - extrinsic_change/5
\* (if positive) - intrinsic_change/10 (if positive), clamped to [1, 10] and
\* rounded to the nearest tenth; recent 40% against comparison 30% gives a
\* change of +10.0, the trend INCREASING and the clamped score 1.0.
C7_ScoreFormula ==
    /\ pc \in {"scored", "rescored"} =>
          /\ 20 * health_score - FormulaValue <= 10
          /\ FormulaValue - 20 * health_score <= 10
    /\ (caller = "get_package_health" /\ pc \in {"alerts", "score", "scored"}
          /\ recent_comp.extrinsic_pct = 400 /\ comparison_comp.extrinsic_pct = 300) =>
          /\ trends.extrinsic_change = 100
          /\ trends.extrinsic_trend = "INCREASING"
          /\ pc = "scored" => health_score = 10

C7_Witness ==
    /\ caller = "get_package_health"
    /\ pc = "scored"
    /\ recent_comp.extrinsic_pct = 400
    /\ comparison_comp.extrinsic_pct = 300
    /\ trends.extrinsic_trend = "INCREASING"
    /\ health_score = 10

\* C8: a delta (recent minus comparison) is INCREASING exactly when it is
\* > +5 points, DECREASING exactly when it is < -5 points and STABLE
\* otherwise, so that a delta of exactly 5.0 points is STABLE.
C8_TrendThreshold ==
    (caller = "get_package_health" /\ pc \in {"alerts", "score", "scored"}) =>
        LET label(delta) ==
                IF delta > 50 THEN "INCREASING"
                ELSE IF delta < -50 THEN "DECREASING" ELSE "STABLE"
        IN  /\ trends.extrinsic_trend
                  = label(recent_comp.extrinsic_pct - comparison_comp.extrinsic_pct)
            /\ trends.intrinsic_trend
                  = label(recent_comp.intrinsic_pct - comparison_comp.intrinsic_pct)

Crossed(change) == change > 50 \/ change < -50

\* C9: generate_alerts returns at least one message, and exactly the single
\* no-significant-change message if and only if neither change of the trend
\* record is beyond +/-5 points.
C9_AlertsNeverEmpty ==
    pc \in {"score", "scored", "rescored"} =>
        /\ Len(alerts) >= 1
        /\ (alerts = <<NoChangeAlert>>)
              <=> (~ Crossed(trends.extrinsic_change) /\ ~ Crossed(trends.intrinsic_change))
        /\ \A i \in 1..Len(alerts) :
              alerts[i] = NoChangeAlert => Len(alerts) = 1

C9_Witness ==
    /\ pc = "score"
    /\ trends.extrinsic_change = 50
    /\ trends.intrinsic_change = -50
    /\ alerts = <<NoChangeAlert>>

\* ------------------------------------ the windows of get_package_health
\* timedelta(days=months * 30): the days of one month of a window
MonthDays == 30

MaxMonths == 2

\* months is not validated: zero and negative values reach the windowing
MonthsValues == (0 - 1)..MaxMonths

recent_start(n, m) == n - m * MonthDays

comparison_start(n, m) == recent_start(n, m) - m * MonthDays

\* [b for b in bugs if b['created_dt'] >= recent_start]
RecentBugs(bugList, n, m) ==
    LET Test(b) == b.created_dt >= recent_start(n, m)
    IN  SelectSeq(bugList, Test)

\* the comparison window with its upper end closed
ComparisonBugsClosed(bugList, n, m) ==
    LET Test(b) == /\ comparison_start(n, m) <= b.created_dt
                   /\ b.created_dt <= recent_start(n, m)
    IN  SelectSeq(bugList, Test)

\* [b for b in bugs if comparison_start <= b['created_dt'] < recent_start]
ComparisonBugs(bugList, n, m) ==
    LET Test(b) == /\ comparison_start(n, m) <= b.created_dt
                   /\ b.created_dt < recent_start(n, m)
    IN  SelectSeq(bugList, Test)

\* creation times at and next to every end of the two windows
BoundaryTimes(n, m) ==
    {comparison_start(n, m) - 1, comparison_start(n, m),
     recent_start(n, m) - 1, recent_start(n, m), recent_start(n, m) + 1,
     n, n + 1}

WindowClassifications == {"Extrinsic", "Intrinsic"}

WindowBugLists(n, m) ==
    {[i \in 1..Len(ts) |-> Bug(i, ts[i][1], ts[i][2])] :
        ts \in SeqsUpTo(BoundaryTimes(n, m) \X WindowClassifications, MaxBugs)}

InitWindow ==
    /\ pc = "window"
    /\ now \in Times
    /\ months \in MonthsValues
    /\ loaded \in WindowBugLists(now, months)
    /\ recent_bugs = <<>>
    /\ comparison_bugs = <<>>
    /\ window_comp = NoWindowComp
    /\ window_report = NoReport
    /\ IdleEvolution
    /\ IdleComposition
    /\ IdleHealth
    /\ IdleTrack
    /\ IdleMerge
    /\ IdleBatch
    /\ IdleThresholds
    /\ IdleRisk
    /\ IdleCollect
    /\ IdleClassify
    /\ IdleWorkflow

\* if not bugs: return "No bugs found ..."
NoBugsFound ==
    /\ pc = "window"
    /\ loaded = <<>>
    /\ pc' = "no_bugs"
    /\ UNCHANGED <<evoVars, compVars, healthVars, windowVars, trackVars, mergeVars, batchVars,
                   thresholdVars, riskVars, collectVars, classifyVars,
                   workflowVars>>

\* the two list comprehensions
SelectWindows ==
    /\ pc = "window"
    /\ loaded # <<>>
    /\ recent_bugs' = RecentBugs(loaded, now, months)
    /\ comparison_bugs' = ComparisonBugs(loaded, now, months)
    /\ pc' = "windowed"
    /\ UNCHANGED <<now, months, loaded, window_comp, window_report, evoVars, compVars, healthVars, trackVars,
                   mergeVars, batchVars, thresholdVars, riskVars,
                   collectVars, classifyVars, workflowVars>>

\* recent_comp and comparison_comp
ComposeWindows ==
    /\ pc = "windowed"
    /\ window_comp' = [recent |-> calculate_composition(recent_bugs),
                       comparison |-> calculate_composition(comparison_bugs)]
    /\ pc' = "window_composed"
    /\ UNCHANGED <<now, months, loaded, recent_bugs, comparison_bugs, window_report,
                   evoVars, compVars, healthVars, trackVars, mergeVars,
                   batchVars, thresholdVars, riskVars, collectVars,
                   classifyVars, workflowVars>>

\* trends, alerts and health_score, handed to format_dashboard
ReportWindows ==
    /\ pc = "window_composed"
    /\ LET t == calculate_trends(window_comp.recent, window_comp.comparison)
       IN  \E score \in calculate_health_score(window_comp.recent, t) :
               window_report' = [trends |-> t,
                                 alerts |-> generate_alerts(t),
                                 health_score |-> score]
    /\ pc' = "dashboard"
    /\ UNCHANGED <<now, months, loaded, recent_bugs, comparison_bugs, window_comp,
                   evoVars, compVars, healthVars, trackVars, mergeVars,
                   batchVars, thresholdVars, riskVars, collectVars,
                   classifyVars, workflowVars>>

NextWindow ==
    \/ NoBugsFound
    \/ SelectWindows
    \/ ComposeWindows
    \/ ReportWindows

SpecWindow == InitWindow /\ [][NextWindow]_vars

\* the bug of that issue number is in the list
InList(bugList, number) == \E i \in 1..Len(bugList) : bugList[i].number = number

Windowed == pc \in {"windowed", "window_composed", "dashboard"}

\* C12: a bug is counted in the recent composition if and only if its
\* creation time is >= now - months*30 days and <= now.
C12_RecentWindow ==
    /\ Windowed =>
          \A k \in 1..Len(loaded) :
              InList(recent_bugs, loaded[k].number) <=>
                  /\ loaded[k].created_dt >= now - months * MonthDays
                  /\ loaded[k].created_dt <= now
    /\ pc \in {"window_composed", "dashboard"} =>
          window_comp.recent.total =
              Cardinality({k \in 1..Len(loaded) :
                  /\ loaded[k].created_dt >= now - months * MonthDays
                  /\ loaded[k].created_dt <= now})

\* C13: no bug is counted in both windows, for every value of months and
\* every creation time, and a bug created exactly at now - months*30 days
\* is in the recent window only.
C13_WindowsDisjoint ==
    Windowed =>
        \A k \in 1..Len(loaded) :
            /\ ~ (/\ InList(recent_bugs, loaded[k].number)
                  /\ InList(comparison_bugs, loaded[k].number))
            /\ loaded[k].created_dt = now - months * MonthDays =>
                  /\ InList(recent_bugs, loaded[k].number)
                  /\ ~ InList(comparison_bugs, loaded[k].number)
            /\ pc \in {"window_composed", "dashboard"} =>
                  window_comp.recent.total + window_comp.comparison.total
                      <= Len(loaded)

\* one bug exactly at the boundary, one in the comparison window
C13_Witness ==
    /\ pc = "window_composed"
    /\ months > 0
    /\ \E k \in 1..Len(loaded) : loaded[k].created_dt = now - months * MonthDays
    /\ window_comp.recent.total = 1
    /\ window_comp.comparison.total = 1

\* ------------------------------------------- the order of the results
\* C17: the records analyze_version_composition returns are ordered
\* ascending by the published_at timestamps of their versions, whatever the
\* order of the bugs, also for two versions published on the same calendar
\* day at different times.
C17_ResultsOrdered ==
    pc = "done" =>
        \A i, j \in 1..Len(results) :
            i < j => PublishedAtOf(results[i].version) <= PublishedAtOf(results[j].version)

\* --------------------------------------------- track_package_evolution
MaxEntries == 2

MaxRecords == 2

\* A timestamp string of the registry or of the classified file: absent,
\* not ISO 8601, or parsed to the time "at".
Stamp(kind, at) == [kind |-> kind, at |-> at]

VersionStamps ==
    {Stamp("missing", 0), Stamp("unparseable", 0), Stamp("ok", 1), Stamp("ok", 2)}

\* The shape of a version id of major number n: "n.0.0", and the ids of
\* two components "n.0" and "n.5".
IdShapes == {"n.0.0", "n.0", "n.5"}

\* package_data['versions'] in iteration order, keys "1...", "2...", with
\* package_data['time'] folded into each entry
VersionMaps ==
    {[i \in 1..Len(es) |-> [version |-> i, shape |-> es[i][1], time |-> es[i][2]]] :
        es \in SeqsUpTo(IdShapes \X VersionStamps, MaxEntries)}

PackageDatas ==
    {NoPackageData, [fetched |-> TRUE, has_versions |-> FALSE, versions |-> <<>>]}
    \cup {[fetched |-> TRUE, has_versions |-> TRUE, versions |-> vs] : vs \in VersionMaps}

\* version.split('.')[1] == '0' and version.split('.')[2] == '0' raises
\* IndexError when the second component is '0' and there is no third
IsMajorRaises(shape) == shape = "n.0"

\* timeline.sort(key=lambda x: x['published_at'])
SortTimeline(timeline) == SortByPublished(timeline)

\* for version, version_info in package_data['versions'].items()
RECURSIVE BuildLoop(_, _, _)
BuildLoop(versions, k, timeline) ==
    IF k > Len(versions) THEN [raised |-> "none", timeline |-> timeline]
    ELSE IF versions[k].time.kind # "ok"
         THEN BuildLoop(versions, k + 1, timeline)
         ELSE IF IsMajorRaises(versions[k].shape)
              THEN [raised |-> "IndexError", timeline |-> timeline]
              ELSE BuildLoop(versions, k + 1,
                       Append(timeline, VersionRecord(versions[k].version, versions[k].time.at)))

\* The return value, is_none telling None from a list; the print after the
\* sort reads timeline[0] and raises IndexError on an empty list.
build_version_timeline(data) ==
    IF ~ data.fetched \/ ~ data.has_versions
    THEN [raised |-> "none", is_none |-> TRUE, timeline |-> <<>>]
    ELSE LET loop == BuildLoop(data.versions, 1, <<>>)
         IN  IF loop.raised # "none"
             THEN [raised |-> loop.raised, is_none |-> FALSE, timeline |-> <<>>]
             ELSE IF loop.timeline = <<>>
                  THEN [raised |-> "IndexError", is_none |-> FALSE, timeline |-> <<>>]
                  ELSE [raised |-> "none", is_none |-> FALSE,
                        timeline |-> SortTimeline(loop.timeline)]

\* creation times before the first version and after the last one
BugStamps == {Stamp("unparseable", 0), Stamp("ok", 0), Stamp("ok", 2)}

\* A line of the classified file: whether its repo names the package and it
\* has a created_at, and that created_at.
FileRecords == [matches : BOOLEAN, created_at : BugStamps]

ClassifiedFiles ==
    {NoFile} \cup
    {[exists |-> TRUE, records |-> rs] : rs \in SeqsUpTo(FileRecords, MaxRecords)}

\* the bugs with created_dt set, in file order
RECURSIVE ParsedBugs(_, _)
ParsedBugs(records, k) ==
    IF k > Len(records) THEN <<>>
    ELSE IF records[k].matches /\ records[k].created_at.kind = "ok"
         THEN <<Bug(k, records[k].created_at.at, "Extrinsic")>>
                  \o ParsedBugs(records, k + 1)
         ELSE ParsedBugs(records, k + 1)

\* load_package_bugs of the evolution tracker: open() raises on a missing
\* file, None when no line matches, else the bugs with a parsed created_dt
load_package_bugs(file) ==
    IF ~ file.exists
    THEN [raised |-> "FileNotFoundError", is_none |-> FALSE, bugs |-> <<>>]
    ELSE IF \A k \in 1..Len(file.records) : ~ file.records[k].matches
         THEN [raised |-> "none", is_none |-> TRUE, bugs |-> <<>>]
         ELSE [raised |-> "none", is_none |-> FALSE, bugs |-> ParsedBugs(file.records, 1)]

InitTrack ==
    /\ pc = "fetch"
    /\ package_data \in PackageDatas
    /\ classified_file = NoFile
    /\ exception = "none"
    /\ track_result = "none"
    /\ IdleEvolution
    /\ IdleComposition
    /\ IdleHealth
    /\ IdleWindow
    /\ IdleMerge
    /\ IdleBatch
    /\ IdleThresholds
    /\ IdleRisk
    /\ IdleCollect
    /\ IdleClassify
    /\ IdleWorkflow

\* package_data = fetch_all_package_versions(...); if not package_data: return
FetchPackage ==
    /\ pc = "fetch"
    /\ IF ~ package_data.fetched
       THEN /\ track_result' = "Failed to fetch package data"
            /\ pc' = "returned"
       ELSE /\ pc' = "build"
            /\ UNCHANGED track_result
    /\ UNCHANGED <<package_data, classified_file, exception,
                   evoVars, compVars, healthVars, windowVars, mergeVars,
                   batchVars, thresholdVars, riskVars, collectVars,
                   classifyVars, workflowVars>>

\* version_timeline = build_version_timeline(package_data); if not ...: return
BuildVersionTimeline ==
    /\ pc = "build"
    /\ LET built == build_version_timeline(package_data)
       IN  IF built.raised # "none"
           THEN /\ exception' = built.raised
                /\ pc' = "raised"
                /\ UNCHANGED <<version_timeline, track_result>>
           ELSE IF built.is_none \/ built.timeline = <<>>
                THEN /\ track_result' = "Failed to build version timeline"
                     /\ pc' = "returned"
                     /\ UNCHANGED <<version_timeline, exception>>
                ELSE /\ version_timeline' = built.timeline
                     /\ pc' = "load"
                     /\ UNCHANGED <<exception, track_result>>
    /\ UNCHANGED <<package_data, classified_file, bugs, idx, bugs_by_version,
                   unassigned, results, compVars, healthVars, windowVars,
                   mergeVars, batchVars, thresholdVars, riskVars,
                   collectVars, classifyVars, workflowVars>>

\* bugs = load_package_bugs(classified_file, package_name); if not bugs: return
LoadPackageBugs ==
    /\ pc = "load"
    /\ \E file \in ClassifiedFiles :
          /\ classified_file' = file
          /\ LET got == load_package_bugs(file)
             IN  IF got.raised # "none"
                 THEN /\ exception' = got.raised
                      /\ pc' = "raised"
                      /\ UNCHANGED <<bugs, track_result>>
                 ELSE IF got.is_none \/ got.bugs = <<>>
                      THEN /\ track_result' = "No bugs found"
                           /\ pc' = "returned"
                           /\ UNCHANGED <<bugs, exception>>
                      ELSE /\ bugs' = got.bugs
                           /\ pc' = "assign"
                           /\ UNCHANGED <<exception, track_result>>
    /\ UNCHANGED <<package_data, version_timeline, idx, bugs_by_version,
                   unassigned, results, compVars, healthVars, windowVars,
                   mergeVars, batchVars, thresholdVars, riskVars,
                   collectVars, classifyVars, workflowVars>>

NextTrack ==
    \/ FetchPackage
    \/ BuildVersionTimeline
    \/ LoadPackageBugs
    \/ AssignBug
    \/ AssignReturn
    \/ AssignFailed
    \/ AnalyzeVersionComposition

SpecTrack == InitTrack /\ [][NextTrack]_vars

\* track_package_evolution has returned or raised
TrackEnded == pc \in {"returned", "raised", "error", "done"}

\* the 'error' field of the returned dict, "none" for a dict without it
ErrorField ==
    IF pc = "error" THEN "Failed to assign bugs to versions"
    ELSE IF pc = "returned" THEN track_result
    ELSE "none"

\* the version ids of the metadata map with a parseable publish timestamp
UsableVersions(data) ==
    {data.versions[k].version : k \in {i \in 1..Len(data.versions) :
                                           data.versions[i].time.kind = "ok"}}

VersionsOf(timeline) == {timeline[i].version : i \in 1..Len(timeline)}

BuildEnded == pc \notin {"fetch", "build"}

IsSortedByPublishedAt(timeline) ==
    \A i \in 1..(Len(timeline) - 1) :
        timeline[i].published_at <= timeline[i + 1].published_at

\* C14: build_version_timeline returns the version records sorted ascending
\* by published_at, holding exactly the versions of the metadata map with a
\* parseable publish timestamp; a version without a timestamp or with an
\* unparseable one is left out and never aborts the build.
C14_TimelineSortedExact ==
    (BuildEnded /\ package_data.fetched /\ package_data.has_versions) =>
        /\ exception # "IndexError"
        /\ IsSortedByPublishedAt(version_timeline)
        /\ VersionsOf(version_timeline) = UsableVersions(package_data)

\* C15: when no version is left after the filtering (the version map is
\* empty or every version lacks a usable publish timestamp),
\* track_package_evolution returns an error result and neither loads nor
\* assigns a bug.
C15_EmptyTimelineError ==
    (/\ BuildEnded
     /\ package_data.fetched
     /\ package_data.has_versions
     /\ UsableVersions(package_data) = {}) =>
        /\ pc = "returned"
        /\ exception = "none"
        /\ ErrorField = "Failed to build version timeline"
        /\ bugs = <<>>
        /\ bugs_by_version = <<>>

\* the entries whose version id has three dot-separated components
WellFormed(data) ==
    {data.versions[k].version : k \in {i \in 1..Len(data.versions) :
                                           data.versions[i].shape = "n.0.0"}}

\* C16: a version entry whose id does not have three dot-separated
\* components is skipped by build_version_timeline, and the remaining
\* versions are still processed into the timeline.
C16_MalformedSkipped ==
    (/\ BuildEnded
     /\ package_data.fetched
     /\ package_data.has_versions
     /\ WellFormed(package_data) # VersionsOf(package_data.versions)
     /\ UsableVersions(package_data) \cap WellFormed(package_data) # {}) =>
        /\ exception # "IndexError"
        /\ VersionsOf(version_timeline)
               = UsableVersions(package_data) \cap WellFormed(package_data)

\* the dataset holds no usable data for the package
NoUsableData ==
    \/ ~ classified_file.exists
    \/ load_package_bugs(classified_file).is_none
    \/ load_package_bugs(classified_file).bugs = <<>>
    \/ \A k \in 1..Len(bugs) : AssignedVersion(bugs[k], version_timeline) = None

\* C19: once the timeline is built, track_package_evolution never raises
\* for a missing classified file, no matching bug, no matching bug with a
\* parseable timestamp or no assignable bug: it returns a result with an
\* 'error' field; a result without 'error' carries analysis_results and
\* version_timeline.
C19_NoRaiseOnAbsence ==
    (TrackEnded /\ version_timeline # <<>>) =>
        /\ exception = "none"
        /\ NoUsableData => ErrorField # "none"
        /\ ErrorField = "none" =>
              /\ pc = "done"
              /\ results # <<>>

\* -------------------------------------------------- merge_classifications
MaxIssues == 2

MaxResults == 2

\* A string is the sequence of its characters.
UpperCase ==
    <<"A", "B", "C", "D", "E", "F", "G", "H", "I", "J", "K", "L", "M",
      "N", "O", "P", "Q", "R", "S", "T", "U", "V", "W", "X", "Y", "Z">>

LowerCase ==
    <<"a", "b", "c", "d", "e", "f", "g", "h", "i", "j", "k", "l", "m",
      "n", "o", "p", "q", "r", "s", "t", "u", "v", "w", "x", "y", "z">>

\* str.upper and str.lower of one character: other characters are kept
ToUpper(ch) ==
    IF \E i \in 1..26 : LowerCase[i] = ch
    THEN UpperCase[CHOOSE i \in 1..26 : LowerCase[i] = ch]
    ELSE ch

ToLower(ch) ==
    IF \E i \in 1..26 : UpperCase[i] = ch
    THEN LowerCase[CHOOSE i \in 1..26 : UpperCase[i] = ch]
    ELSE ch

\* str.capitalize: the first character upper case, the others lower case
Capitalize(s) ==
    [i \in 1..Len(s) |-> IF i = 1 THEN ToUpper(s[i]) ELSE ToLower(s[i])]

\* the values _parse_classification and classify return
INTRINSIC == <<"I", "N", "T", "R", "I", "N", "S", "I", "C">>

EXTRINSIC == <<"E", "X", "T", "R", "I", "N", "S", "I", "C">>

NOT_A_BUG == <<"N", "O", "T", "_", "A", "_", "B", "U", "G">>

UNKNOWN == <<"U", "N", "K", "N", "O", "W", "N">>

ResultClassifications == {INTRINSIC, EXTRINSIC, NOT_A_BUG, UNKNOWN}

\* 'Not  a Bug', with two spaces
NotABugText == <<"N", "o", "t", " ", " ", "a", " ", "B", "u", "g">>

UnknownText == <<"U", "n", "k", "n", "o", "w", "n">>

\* the mapping without the special case of NOT_A_BUG
FinalClassCapitalized(classification) == Capitalize(classification)

\* final_class of a matched result
FinalClass(classification) ==
    IF classification = NOT_A_BUG THEN NotABugText ELSE Capitalize(classification)

\* dict[key] = value: a new key goes last, a present key keeps its place
\* dict.setdefault(key, value): an existing key keeps its first value
DictPutKeepFirst(dict, key, value) ==
    IF \E i \in 1..Len(dict) : dict[i].key = key
    THEN dict
    ELSE Append(dict, [key |-> key, value |-> value])

DictPut(dict, key, value) ==
    IF \E i \in 1..Len(dict) : dict[i].key = key
    THEN [i \in 1..Len(dict) |->
             IF dict[i].key = key THEN [key |-> key, value |-> value] ELSE dict[i]]
    ELSE Append(dict, [key |-> key, value |-> value])

HasDictKey(dict, key) == \E i \in 1..Len(dict) : dict[i].key = key

DictGet(dict, key) == dict[CHOOSE i \in 1..Len(dict) : dict[i].key = key].value

\* collected[(owner, repo, number)] = issue, line by line
RECURSIVE LoadCollected(_, _, _)
LoadCollected(lines, k, dict) ==
    IF k > Len(lines) THEN dict
    ELSE LoadCollected(lines, k + 1,
             DictPut(dict, <<lines[k].owner, lines[k].repo, lines[k].number>>, lines[k]))

\* classifications[(owner, repo, number)] = result when result['repo'] has two parts
RECURSIVE LoadResults(_, _, _)
LoadResults(lines, k, dict) ==
    IF k > Len(lines) THEN dict
    ELSE IF Len(lines[k].repo) = 2
         THEN LoadResults(lines, k + 1,
                  DictPut(dict, <<lines[k].repo[1], lines[k].repo[2], lines[k].number>>,
                          lines[k]))
         ELSE LoadResults(lines, k + 1, dict)

\* the issue as it is written to the output file
MergedIssue(issue, final_classification, classification) ==
    [owner |-> issue.owner, repo |-> issue.repo, number |-> issue.number,
     source_line |-> issue.source_line,
     final_classification |-> final_classification,
     classification |-> classification]

IssueNumbers == {1, 2}

\* lines of the collected file: issues of the repository o/r
CollectedFiles ==
    {[i \in 1..Len(ns) |-> [owner |-> "o", repo |-> "r", number |-> ns[i],
                            source_line |-> i]] :
        ns \in SeqsUpTo(IssueNumbers, MaxIssues)}

\* result['repo'].split('/'): "o/r", or "r" without its owner
RepoParts == {<<"o", "r">>, <<"r">>}

ResultsFiles ==
    SeqsUpTo([repo : RepoParts, number : IssueNumbers,
              classification : ResultClassifications], MaxResults)

InitMerge ==
    /\ pc = "load_collected"
    /\ collected_file \in CollectedFiles
    /\ results_file \in ResultsFiles
    /\ collected = <<>>
    /\ classifications = <<>>
    /\ merge_idx = 0
    /\ output = <<>>
    /\ merged_count = 0
    /\ IdleEvolution
    /\ IdleComposition
    /\ IdleHealth
    /\ IdleWindow
    /\ IdleTrack
    /\ IdleBatch
    /\ IdleThresholds
    /\ IdleRisk
    /\ IdleCollect
    /\ IdleClassify
    /\ IdleWorkflow

ReadCollected ==
    /\ pc = "load_collected"
    /\ collected' = LoadCollected(collected_file, 1, <<>>)
    /\ pc' = "load_results"
    /\ UNCHANGED <<collected_file, results_file, classifications, merge_idx, output,
                   merged_count,
                   evoVars, compVars, healthVars, windowVars, trackVars,
                   batchVars, thresholdVars, riskVars, collectVars,
                   classifyVars, workflowVars>>

ReadResults ==
    /\ pc = "load_results"
    /\ classifications' = LoadResults(results_file, 1, <<>>)
    /\ pc' = "merging"
    /\ UNCHANGED <<collected_file, results_file, collected, merge_idx, output,
                   merged_count,
                   evoVars, compVars, healthVars, windowVars, trackVars,
                   batchVars, thresholdVars, riskVars, collectVars,
                   classifyVars, workflowVars>>

\* one iteration of "for key, issue in collected.items()"
MergeIssue ==
    /\ pc = "merging"
    /\ merge_idx < Len(collected)
    /\ LET key == collected[merge_idx + 1].key
           issue == collected[merge_idx + 1].value
       IN  IF HasDictKey(classifications, key)
           THEN LET result == DictGet(classifications, key)
                IN  /\ output' = Append(output,
                           MergedIssue(issue, FinalClass(result.classification),
                                       result.classification))
                    /\ merged_count' = merged_count + 1
           ELSE /\ output' = Append(output, MergedIssue(issue, UnknownText, UNKNOWN))
                /\ UNCHANGED merged_count
    /\ merge_idx' = merge_idx + 1
    /\ UNCHANGED <<pc, collected_file, results_file, collected, classifications,
                   evoVars, compVars, healthVars, windowVars, trackVars,
                   batchVars, thresholdVars, riskVars, collectVars,
                   classifyVars, workflowVars>>

MergeReturn ==
    /\ pc = "merging"
    /\ merge_idx = Len(collected)
    /\ pc' = "merged"
    /\ UNCHANGED <<mergeVars, evoVars, compVars, healthVars, windowVars, trackVars, batchVars,
                   thresholdVars, riskVars, collectVars, classifyVars,
                   workflowVars>>

NextMerge ==
    \/ ReadCollected
    \/ ReadResults
    \/ MergeIssue
    \/ MergeReturn

SpecMerge == InitMerge /\ [][NextMerge]_vars

IntrinsicText == <<"I", "n", "t", "r", "i", "n", "s", "i", "c">>

ExtrinsicText == <<"E", "x", "t", "r", "i", "n", "s", "i", "c">>

FourValueTexts == {IntrinsicText, ExtrinsicText, NotABugText, UnknownText}

\* the lines of the results file holding a record for (owner, repo, number)
MatchingLines(issue) ==
    {k \in 1..Len(results_file) :
        /\ Len(results_file[k].repo) = 2
        /\ results_file[k].repo[1] = issue.owner
        /\ results_file[k].repo[2] = issue.repo
        /\ results_file[k].number = issue.number}

LastMatchingLine(issue) ==
    CHOOSE k \in MatchingLines(issue) : \A l \in MatchingLines(issue) : l <= k

IssueKeys(lines) ==
    {<<lines[k].owner, lines[k].repo, lines[k].number>> : k \in 1..Len(lines)}

MaxPackages == 3

\* what fetch_package_json hands back: None (a status other than 200 or an
\* exception), an empty JSON object, or the document of the package
FetchOutcomes == {"None", "{}", "document"}

\* the truth value Python gives the fetched document
Truthy(fetched) == fetched = "document"

\* count_dependencies: None for a falsy document, else a non-empty dict
count_dependencies(fetched) ==
    IF ~ Truthy(fetched) THEN "None" ELSE "dep_info"

\* the packages of the dataset, each with the number of its bugs
PackageMaps ==
    {[i \in 1..Len(cs) |-> [package |-> i, bugs |-> cs[i]]] :
        cs \in (SeqsUpTo(1..MaxBugs, MaxPackages) \ {<<>>})}

\* {pkg: bugs for pkg, bugs in all_packages.items() if len(bugs) >= min_bugs}
AtLeastMinBugs(packages, least) ==
    LET Test(p) == p.bugs >= least
    IN  SelectSeq(packages, Test)

\* sorted(..., key=lambda x: len(x[1]), reverse=True): stable
RECURSIVE InsertByBugsDesc(_, _)
InsertByBugsDesc(sorted, p) ==
    IF sorted = <<>> THEN <<p>>
    ELSE IF Head(sorted).bugs >= p.bugs
         THEN <<Head(sorted)>> \o InsertByBugsDesc(Tail(sorted), p)
         ELSE <<p>> \o sorted

RECURSIVE SortByBugsDesc(_)
SortByBugsDesc(s) ==
    IF s = <<>> THEN <<>>
    ELSE InsertByBugsDesc(SortByBugsDesc(SubSeq(s, 1, Len(s) - 1)), s[Len(s)])

\* if max_packages and len(filtered_packages) > max_packages: the top N
LimitPackages(packages, most) ==
    IF most # None /\ Len(packages) > most
    THEN SubSeq(SortByBugsDesc(packages), 1, most)
    ELSE packages

\* a loop that ends at the first package it cannot fetch
NextPackageOrStop(i, n, fetched) ==
    IF ~ Truthy(fetched) THEN n ELSE i + 1

\* continue, or the end of the loop body: on to the next package
NextPackage(i, n, fetched) == i + 1

InitBatch ==
    /\ pc = "batch_filter"
    /\ all_packages \in PackageMaps
    /\ min_bugs \in 1..MaxBugs
    /\ max_packages \in {None} \cup (1..MaxPackages)
    /\ filtered_packages = <<>>
    /\ batch_idx = 0
    /\ fetch_log = <<>>
    /\ analysis_data = <<>>
    /\ failed_packages = <<>>
    /\ IdleEvolution
    /\ IdleComposition
    /\ IdleHealth
    /\ IdleWindow
    /\ IdleTrack
    /\ IdleMerge
    /\ IdleThresholds
    /\ IdleRisk
    /\ IdleCollect
    /\ IdleClassify
    /\ IdleWorkflow

\* steps 2 and 3: the two filters
FilterPackages ==
    /\ pc = "batch_filter"
    /\ filtered_packages' =
          LimitPackages(AtLeastMinBugs(all_packages, min_bugs), max_packages)
    /\ pc' = "batch_loop"
    /\ UNCHANGED <<all_packages, min_bugs, max_packages, batch_idx, fetch_log,
                   analysis_data, failed_packages,
                   evoVars, compVars, healthVars, windowVars, trackVars, mergeVars,
                   thresholdVars, riskVars, collectVars, classifyVars,
                   workflowVars>>

\* one iteration of the loop of step 4
FetchOne ==
    /\ pc = "batch_loop"
    /\ batch_idx < Len(filtered_packages)
    /\ \E fetched \in FetchOutcomes :
          LET entry == filtered_packages[batch_idx + 1]
              dep_info == count_dependencies(fetched)
          IN  /\ fetch_log' = Append(fetch_log, fetched)
              /\ IF ~ Truthy(fetched)
                 THEN /\ failed_packages' = Append(failed_packages, entry.package)
                      /\ UNCHANGED analysis_data
                 ELSE IF dep_info = "None"
                      THEN /\ failed_packages' = Append(failed_packages, entry.package)
                           /\ UNCHANGED analysis_data
                      ELSE /\ analysis_data' = Append(analysis_data,
                                  [package |-> entry.package, dependencies |-> dep_info,
                                   total |-> entry.bugs])
                           /\ UNCHANGED failed_packages
              /\ batch_idx' = NextPackage(batch_idx, Len(filtered_packages), fetched)
    /\ UNCHANGED <<pc, all_packages, min_bugs, max_packages, filtered_packages,
                   evoVars, compVars, healthVars, windowVars, trackVars, mergeVars,
                   thresholdVars, riskVars, collectVars, classifyVars,
                   workflowVars>>

\* the loop is over
BatchDone ==
    /\ pc = "batch_loop"
    /\ batch_idx = Len(filtered_packages)
    /\ pc' = "batch_done"
    /\ UNCHANGED <<batchVars, evoVars, compVars, healthVars, windowVars, trackVars,
                   mergeVars, thresholdVars, riskVars, collectVars,
                   classifyVars, workflowVars>>

NextBatch ==
    \/ FilterPackages
    \/ FetchOne
    \/ BatchDone

SpecBatch == InitBatch /\ [][NextBatch]_vars

\* how often the package is named in the list
TimesIn(names, package) == Cardinality({i \in 1..Len(names) : names[i] = package})

DataPointNames == [i \in 1..Len(analysis_data) |-> analysis_data[i].package]

\* C20: a fetch failure of one package does not stop the batch: when the
\* loop is over every package that passed the min_bugs / max_packages filter
\* is in exactly one of the data points and failed_packages, once, the
\* failed ones being those whose fetch gave nothing, and every package after
\* a failed one was fetched.
C20_BatchContinues ==
    pc = "batch_done" =>
        /\ Len(fetch_log) = Len(filtered_packages)
        /\ \A k \in 1..Len(filtered_packages) :
              LET package == filtered_packages[k].package
              IN  /\ TimesIn(DataPointNames, package) + TimesIn(failed_packages, package) = 1
                  /\ TimesIn(failed_packages, package) = 1 <=> ~ Truthy(fetch_log[k])
        /\ Len(analysis_data) + Len(failed_packages) = Len(filtered_packages)

\* a failed fetch followed by a package that became a data point
C20_Witness ==
    /\ pc = "batch_done"
    /\ \E k, l \in 1..Len(filtered_packages) :
          /\ k < l
          /\ fetch_log[k] = "None"
          /\ TimesIn(failed_packages, filtered_packages[k].package) = 1
          /\ fetch_log[l] = "document"
          /\ TimesIn(DataPointNames, filtered_packages[l].package) = 1

\* ----------------------------------------- calculate_empirical_thresholds
MaxDeps == 3

\* sorted(...): insertion into an ascending list
RECURSIVE InsertAscending(_, _)
InsertAscending(sorted, x) ==
    IF sorted = <<>> THEN <<x>>
    ELSE IF Head(sorted) <= x
         THEN <<Head(sorted)>> \o InsertAscending(Tail(sorted), x)
         ELSE <<x>> \o sorted

RECURSIVE SortAscending(_)
SortAscending(s) ==
    IF s = <<>> THEN <<>>
    ELSE InsertAscending(SortAscending(SubSeq(s, 1, Len(s) - 1)), s[Len(s)])

\* int(n * 0.33) and int(n * 0.66): the double product truncated.  The
\* doubles nearest 0.33 and 0.66 lie above them by less than 2^-54, and the
\* truncated product equals the integer quotient for every n up to 200000.
PercentileIndex(n, hundredths) == (n * hundredths) \div 100

\* the indices of the data points whose count passes the test
IndicesWhere(points, Test(_)) == SelectSeq([i \in 1..Len(points) |-> i], Test)

LowRisk(points, low_threshold) ==
    LET Test(i) == points[i] < low_threshold
    IN  IndicesWhere(points, Test)

\* the medium group with its upper end closed
MediumRiskClosed(points, low_threshold, high_threshold) ==
    LET Test(i) == low_threshold <= points[i] /\ points[i] <= high_threshold
    IN  IndicesWhere(points, Test)

MediumRisk(points, low_threshold, high_threshold) ==
    LET Test(i) == low_threshold <= points[i] /\ points[i] < high_threshold
    IN  IndicesWhere(points, Test)

HighRisk(points, high_threshold) ==
    LET Test(i) == points[i] >= high_threshold
    IN  IndicesWhere(points, Test)

calculate_empirical_thresholds(points) ==
    IF points = <<>> THEN NoEmpirical
    ELSE LET prod_deps == SortAscending(points)
             n == Len(prod_deps)
             low_threshold == prod_deps[PercentileIndex(n, 33) + 1]
             high_threshold == prod_deps[PercentileIndex(n, 66) + 1]
         IN  [is_none |-> FALSE,
              low_threshold |-> low_threshold,
              high_threshold |-> high_threshold,
              low_risk |-> LowRisk(points, low_threshold),
              medium_risk |-> MediumRisk(points, low_threshold, high_threshold),
              high_risk |-> HighRisk(points, high_threshold)]

\* the scenario of the specification: the counts 1..10, here in descending order
ScenarioCounts == [i \in 1..10 |-> 11 - i]

InitThresholds ==
    /\ pc = "thresholds"
    /\ \/ data_points \in SeqsUpTo(0..MaxDeps, MaxPackages)
       \/ data_points = ScenarioCounts
    /\ empirical = NoEmpirical
    /\ IdleEvolution
    /\ IdleComposition
    /\ IdleHealth
    /\ IdleWindow
    /\ IdleTrack
    /\ IdleMerge
    /\ IdleBatch
    /\ IdleRisk
    /\ IdleCollect
    /\ IdleClassify
    /\ IdleWorkflow

CalculateEmpiricalThresholds ==
    /\ pc = "thresholds"
    /\ empirical' = calculate_empirical_thresholds(data_points)
    /\ pc' = "thresholds_done"
    /\ UNCHANGED <<data_points, evoVars, compVars, healthVars, windowVars, trackVars,
                   mergeVars, batchVars, riskVars, collectVars, classifyVars,
                   workflowVars>>

NextThresholds == CalculateEmpiricalThresholds

SpecThresholds == InitThresholds /\ [][NextThresholds]_vars

InGroup(group, i) == \E k \in 1..Len(group) : group[k] = i

GroupsOf(i) ==
    (IF InGroup(empirical.low_risk, i) THEN 1 ELSE 0)
    + (IF InGroup(empirical.medium_risk, i) THEN 1 ELSE 0)
    + (IF InGroup(empirical.high_risk, i) THEN 1 ELSE 0)

\* the number of data points whose count is below the value
CountBelow(value) == Cardinality({i \in 1..Len(data_points) : data_points[i] < value})

\* the value at the 0-based index of the ascending counts: at most index
\* counts lie below it and more than index counts are at or below it
IsValueAtIndex(value, index) ==
    /\ CountBelow(value) <= index
    /\ CountBelow(value + 1) > index

\* C21: the low and high thresholds are the values at the indices
\* floor(n*0.33) and floor(n*0.66) of the ascending production dependency
\* counts, and the low (< low), medium (>= low and < high) and high
\* (>= high) groups hold every package exactly once; for the counts 1..10
\* the thresholds are 4 and 7.
C21_TercilePartition ==
    (pc = "thresholds_done" /\ data_points # <<>>) =>
        /\ ~ empirical.is_none
        /\ IsValueAtIndex(empirical.low_threshold, (Len(data_points) * 33) \div 100)
        /\ IsValueAtIndex(empirical.high_threshold, (Len(data_points) * 66) \div 100)
        /\ \A i \in 1..Len(data_points) :
              /\ GroupsOf(i) = 1
              /\ InGroup(empirical.low_risk, i) <=>
                    data_points[i] < empirical.low_threshold
              /\ InGroup(empirical.high_risk, i) <=>
                    data_points[i] >= empirical.high_threshold
        /\ data_points = ScenarioCounts =>
              /\ empirical.low_threshold = 4
              /\ empirical.high_threshold = 7

C21_Witness ==
    /\ pc = "thresholds_done"
    /\ data_points = ScenarioCounts
    /\ empirical.low_threshold = 4
    /\ empirical.high_threshold = 7
    /\ Len(empirical.low_risk) = 3
    /\ Len(empirical.medium_risk) = 3
    /\ Len(empirical.high_risk) = 4

\* ------------------------------------------------ analyze_dependency_risk
MaxPoints == 2

\* Ratios are in hundredths of a percentage point.
\* sum(... for dp in group) / len(group) if group else 0, rounded to 2 decimals
AvgExtrinsic(points, group) ==
    IF group = <<>> THEN 0
    ELSE RoundTenths(SeqSum([k \in 1..Len(group) |-> points[group[k]].extrinsic_ratio]),
                     Len(group))

\* what the correlation analysis leaves in 'empirical_thresholds'
EmpiricalThresholds(points) ==
    LET found == calculate_empirical_thresholds(
                     [i \in 1..Len(points) |-> points[i].production])
    IN  IF found.is_none THEN NoThresholds
        ELSE [present |-> TRUE,
              low_max |-> found.low_threshold - 1,
              medium_max |-> found.high_threshold - 1,
              avg_extrinsic |-> [LOW |-> AvgExtrinsic(points, found.low_risk),
                                 MEDIUM |-> AvgExtrinsic(points, found.medium_risk),
                                 HIGH |-> AvgExtrinsic(points, found.high_risk)]]

\* the branch of assess_risk_level on the empirical terciles
EmpiricalRisk(prod_deps, extrinsic_ratio, thresholds) ==
    LET risk_category == IF prod_deps <= thresholds.low_max THEN "LOW"
                         ELSE IF prod_deps <= thresholds.medium_max THEN "MEDIUM"
                         ELSE "HIGH"
        expected_extrinsic == thresholds.avg_extrinsic[risk_category]
    IN  IF extrinsic_ratio > expected_extrinsic * 2 /\ risk_category # "HIGH"
        THEN IF risk_category = "LOW" THEN "MEDIUM" ELSE "HIGH"
        ELSE risk_category

\* the fallback heuristics
FallbackRisk(prod_deps, extrinsic_ratio) ==
    IF prod_deps >= 15 /\ extrinsic_ratio >= 5500 THEN "HIGH"
    ELSE IF prod_deps >= 5 \/ extrinsic_ratio >= 4500 THEN "MEDIUM"
    ELSE "LOW"

assess_risk_level(prod_deps, extrinsic_ratio, thresholds) ==
    IF thresholds.present
    THEN EmpiricalRisk(prod_deps, extrinsic_ratio, thresholds)
    ELSE FallbackRisk(prod_deps, extrinsic_ratio)

\* the packages analysed: at and next to the limits of the fallback
RiskPackages == [production : {0, 4, 5, 15}, extrinsic_ratio : {0, 4500, 5500}]

\* the data points of a correlation analysis
CorrelationPoints ==
    SeqsUpTo([production : 0..MaxDeps, extrinsic_ratio : {0, 10000}], MaxPoints)

InitRisk ==
    /\ pc = "risk"
    /\ correlation_file = NoThresholds
    /\ risk_package \in RiskPackages
    /\ risk_reports = <<>>
    /\ IdleEvolution
    /\ IdleComposition
    /\ IdleHealth
    /\ IdleWindow
    /\ IdleTrack
    /\ IdleMerge
    /\ IdleBatch
    /\ IdleThresholds
    /\ IdleCollect
    /\ IdleClassify
    /\ IdleWorkflow

\* analyze_dependency_risk on the fixed package, registry response and dataset
AnalyzeDependencyRisk ==
    /\ pc \in {"risk", "risk_again"}
    /\ LET empirical_thresholds == correlation_file
           risk_level == assess_risk_level(risk_package.production,
                                           risk_package.extrinsic_ratio,
                                           empirical_thresholds)
       IN  risk_reports' = Append(risk_reports,
               [level |-> risk_level,
                used_empirical_thresholds |-> empirical_thresholds.present])
    /\ pc' = IF pc = "risk" THEN "correlation" ELSE "risk_done"
    /\ UNCHANGED <<correlation_file, risk_package, evoVars, compVars, healthVars,
                   windowVars, trackVars, mergeVars, batchVars, thresholdVars,
                   collectVars, classifyVars, workflowVars>>

\* the correlation analysis run as a script: it writes correlation_data_full.json
RunCorrelation ==
    /\ pc = "correlation"
    /\ \E points \in CorrelationPoints :
          correlation_file' = EmpiricalThresholds(points)
    /\ pc' = "risk_again"
    /\ UNCHANGED <<risk_package, risk_reports, evoVars, compVars, healthVars,
                   windowVars, trackVars, mergeVars, batchVars, thresholdVars,
                   collectVars, classifyVars, workflowVars>>

NextRisk ==
    \/ AnalyzeDependencyRisk
    \/ RunCorrelation

SpecRisk == InitRisk /\ [][NextRisk]_vars

\* C22: the report of analyze_dependency_risk for a fixed package, registry
\* response and dataset is the same before and after a correlation analysis
\* ran, whatever that analysis computed.
C22_NoSharedState ==
    pc = "risk_done" => risk_reports[1] = risk_reports[2]

\* ------------------------------------------------- IssueCollector.collect
MaxListing == 3

MaxLimit == 2

\* the issue listing of a repository: issue k is a pull request or not
Listings ==
    {[k \in 1..Len(prs) |-> [number |-> k, pull_request |-> prs[k]]] :
        prs \in SeqsUpTo(BOOLEAN, MaxListing)}

\* int(limit_str) of the tools accepts every integer, zero and negatives too
Limits == (0 - 1)..MaxLimit

InitCollect ==
    /\ pc = "get_repo"
    /\ repo_issues \in [accessible : BOOLEAN, issues : Listings]
    /\ limit \in Limits
    /\ issue_idx = 0
    /\ collect_result = <<>>
    /\ IdleEvolution
    /\ IdleComposition
    /\ IdleHealth
    /\ IdleWindow
    /\ IdleTrack
    /\ IdleMerge
    /\ IdleBatch
    /\ IdleThresholds
    /\ IdleRisk
    /\ IdleClassify
    /\ IdleWorkflow

\* repo = self.gh.get_repo(repo_name); an exception returns []
GetRepo ==
    /\ pc = "get_repo"
    /\ pc' = IF repo_issues.accessible THEN "collecting" ELSE "collected"
    /\ UNCHANGED <<collectVars, evoVars, compVars, healthVars, windowVars, trackVars,
                   mergeVars, batchVars, thresholdVars, riskVars,
                   classifyVars, workflowVars>>

\* one iteration of "for issue in issues"
CollectIssue ==
    /\ pc = "collecting"
    /\ issue_idx < Len(repo_issues.issues)
    /\ LET issue == repo_issues.issues[issue_idx + 1]
       IN  IF issue.pull_request
           THEN /\ UNCHANGED <<pc, collect_result>>
           ELSE /\ collect_result' = Append(collect_result, issue)
                /\ pc' = IF Len(collect_result) + 1 >= limit
                         THEN "collected" ELSE "collecting"
    /\ issue_idx' = issue_idx + 1
    /\ UNCHANGED <<repo_issues, limit, evoVars, compVars, healthVars, windowVars,
                   trackVars, mergeVars, batchVars, thresholdVars, riskVars,
                   classifyVars, workflowVars>>

\* the listing is exhausted
CollectExhausted ==
    /\ pc = "collecting"
    /\ issue_idx = Len(repo_issues.issues)
    /\ pc' = "collected"
    /\ UNCHANGED <<collectVars, evoVars, compVars, healthVars, windowVars, trackVars,
                   mergeVars, batchVars, thresholdVars, riskVars,
                   classifyVars, workflowVars>>

NextCollect ==
    \/ GetRepo
    \/ CollectIssue
    \/ CollectExhausted

SpecCollect == InitCollect /\ [][NextCollect]_vars

\* the issues of the listing that are not pull requests, in listing order
NonPullRequests ==
    LET Test(issue) == ~ issue.pull_request
    IN  SelectSeq(repo_issues.issues, Test)

\* C23: for every integer limit the tools accept, collect returns at most
\* limit issues, none a pull request, in the order of the listing, and
\* exactly limit issues when the repository has at least limit issues that
\* are not pull requests (no issue for a limit of zero or below).
C23_CollectAtMostLimit ==
    pc = "collected" =>
        /\ Len(collect_result) <= Max(limit, 0)
        /\ \A k \in 1..Len(collect_result) : ~ collect_result[k].pull_request
        /\ Len(collect_result) <= Len(NonPullRequests)
        /\ collect_result = SubSeq(NonPullRequests, 1, Len(collect_result))
        /\ (repo_issues.accessible /\ Len(NonPullRequests) >= limit) =>
              Len(collect_result) = Max(limit, 0)

\* ------------------------------------------ the order of the alert messages
IsThresholdAlert(a) == a # NoChangeAlert

ThresholdAlerts == SelectSeq(alerts, IsThresholdAlert)

\* the place of a threshold message in the fixed order
AlertRank(a) ==
    IF a.direction = "increased"
        THEN (IF a.metric = "Extrinsic" THEN 1 ELSE 2)
        ELSE (IF a.metric = "Extrinsic" THEN 3 ELSE 4)

HasAlert(metric, direction) ==
    \E i \in 1..Len(alerts) :
        alerts[i].metric = metric /\ alerts[i].direction = direction

\* C24: generate_alerts evaluates the four threshold conditions
\* independently and emits their messages in the fixed order extrinsic up,
\* intrinsic up, extrinsic down, intrinsic down; it never emits both an
\* increased and a decreased message for the same metric, so the list holds
\* at most two threshold messages.
C24_AlertOrder ==
    pc \in {"score", "scored", "rescored"} =>
        /\ HasAlert("Extrinsic", "increased") <=> trends.extrinsic_change > 50
        /\ HasAlert("Intrinsic", "increased") <=> trends.intrinsic_change > 50
        /\ HasAlert("Extrinsic", "decreased") <=> trends.extrinsic_change < -50
        /\ HasAlert("Intrinsic", "decreased") <=> trends.intrinsic_change < -50
        /\ \A i, j \in 1..Len(ThresholdAlerts) :
              i < j => AlertRank(ThresholdAlerts[i]) < AlertRank(ThresholdAlerts[j])
        /\ \A metric \in {"Extrinsic", "Intrinsic"} :
              ~ (HasAlert(metric, "increased") /\ HasAlert(metric, "decreased"))
        /\ Len(ThresholdAlerts) <= 2

\* an intrinsic rise and an extrinsic fall: the rise is reported first
C24_Witness ==
    /\ pc = "score"
    /\ trends.intrinsic_change > 50
    /\ trends.extrinsic_change < -50
    /\ alerts = <<Alert("Intrinsic", "increased", trends.intrinsic_change),
                  Alert("Extrinsic", "decreased", Abs(trends.extrinsic_change))>>

\* C25: for every trend record produced by calculate_trends, generate_alerts
\* emits an increased message for a metric exactly when calculate_trends
\* labelled it INCREASING and a decreased message exactly when it labelled
\* it DECREASING.
C25_AlertsMatchLabels ==
    (caller = "get_package_health" /\ pc \in {"score", "scored"}) =>
        /\ HasAlert("Extrinsic", "increased") <=> trends.extrinsic_trend = "INCREASING"
        /\ HasAlert("Extrinsic", "decreased") <=> trends.extrinsic_trend = "DECREASING"
        /\ HasAlert("Intrinsic", "increased") <=> trends.intrinsic_trend = "INCREASING"
        /\ HasAlert("Intrinsic", "decreased") <=> trends.intrinsic_trend = "DECREASING"

InRecentWindow(b) ==
    /\ b.created_dt >= now - months * MonthDays
    /\ b.created_dt <= now

\* C27: when the package has bugs but none of them falls in the recent
\* window, get_package_health reports a health score of 10.0, whatever the
\* composition of the comparison window.
C27_QuietWindowScore ==
    (/\ pc = "dashboard"
     /\ loaded # <<>>
     /\ \A k \in 1..Len(loaded) : ~ InRecentWindow(loaded[k])) =>
        window_report.health_score = 100

\* ------------------------------------------------- the keys of the merge
KeyOf(issue) == <<issue.owner, issue.repo, issue.number>>

\* the lines of the collected file that carry the key
LinesOfKey(key) == {k \in 1..Len(collected_file) : KeyOf(collected_file[k]) = key}

FirstLineOfKey(key) == CHOOSE k \in LinesOfKey(key) : \A l \in LinesOfKey(key) : k <= l

LastLineOfKey(key) == CHOOSE k \in LinesOfKey(key) : \A l \in LinesOfKey(key) : l <= k

\* the keys of the collected file for which the results file holds a record
\* whose repo has the form owner/repo
ClassifiedKeys ==
    {key \in IssueKeys(collected_file) :
        \E k \in 1..Len(results_file) :
            /\ Len(results_file[k].repo) = 2
            /\ <<results_file[k].repo[1], results_file[k].repo[2],
                 results_file[k].number>> = key}

Repositories == {<<"o", "r">>, <<"p", "q">>}

\* lines of a collected file that may hold issues of more than one repository
MixedCollectedFiles ==
    {[i \in 1..Len(ls) |-> [owner |-> ls[i][1][1], repo |-> ls[i][1][2],
                            number |-> ls[i][2], source_line |-> i]] :
        ls \in SeqsUpTo(Repositories \X IssueNumbers, MaxIssues)}

\* f"{issues[0]['owner']}/{issues[0]['repo']}", as result['repo'].split('/')
\* reads it back: the names of an owner and of a repository hold no slash
RepoOfFile(lines) == <<lines[1].owner, lines[1].repo>>

InitClassify ==
    /\ pc = "classify_from_file"
    /\ collected_file \in MixedCollectedFiles
    /\ results_file = <<>>
    /\ collected = <<>>
    /\ classifications = <<>>
    /\ merge_idx = 0
    /\ output = <<>>
    /\ merged_count = 0
    /\ classify_idx = 0
    /\ returned = <<>>
    /\ IdleEvolution
    /\ IdleComposition
    /\ IdleHealth
    /\ IdleWindow
    /\ IdleTrack
    /\ IdleBatch
    /\ IdleThresholds
    /\ IdleRisk
    /\ IdleCollect
    /\ IdleWorkflow

\* if not issues: return "No issues found in ..."
ClassifyNoIssues ==
    /\ pc = "classify_from_file"
    /\ collected_file = <<>>
    /\ pc' = "no_issues"
    /\ UNCHANGED <<mergeVars, classifyVars, evoVars, compVars, healthVars, windowVars,
                   trackVars, batchVars, thresholdVars, riskVars, collectVars,
                   workflowVars>>

\* one iteration of the loop: classify the issue, append its result record
ClassifyIssue ==
    /\ pc = "classify_from_file"
    /\ classify_idx < Len(collected_file)
    /\ \E classification \in ResultClassifications :
          /\ returned' = Append(returned, classification)
          /\ results_file' = Append(results_file,
                [repo |-> RepoOfFile(collected_file),
                 number |-> collected_file[classify_idx + 1].number,
                 classification |-> classification])
    /\ classify_idx' = classify_idx + 1
    /\ UNCHANGED <<pc, collected_file, collected, classifications, merge_idx, output,
                   merged_count, evoVars, compVars, healthVars, windowVars,
                   trackVars, batchVars, thresholdVars, riskVars, collectVars,
                   workflowVars>>

\* the summary is returned; merge_classifications is called on the two files
ClassifyReturn ==
    /\ pc = "classify_from_file"
    /\ collected_file # <<>>
    /\ classify_idx = Len(collected_file)
    /\ pc' = "load_collected"
    /\ UNCHANGED <<mergeVars, classifyVars, evoVars, compVars, healthVars, windowVars,
                   trackVars, batchVars, thresholdVars, riskVars, collectVars,
                   workflowVars>>

NextClassify ==
    \/ ClassifyNoIssues
    \/ ClassifyIssue
    \/ ClassifyReturn
    \/ ReadCollected
    \/ ReadResults
    \/ MergeIssue
    \/ MergeReturn

SpecClassify == InitClassify /\ [][NextClassify]_vars

\* C29: after classify_from_file on a collected file and the merge of that
\* file with the written results file, every issue carries the
\* classification the classifier returned for that very issue, and each
\* result record is keyed by the owner/repo and number of the issue it
\* classifies, also when the file holds issues of more than one repository.
C29_OwnClassification ==
    /\ \A k \in 1..Len(results_file) :
          /\ results_file[k].repo = <<collected_file[k].owner, collected_file[k].repo>>
          /\ results_file[k].number = collected_file[k].number
    /\ pc = "merged" =>
          \A i \in 1..Len(output) :
              /\ output[i].classification = returned[output[i].source_line]
              /\ output[i].final_classification
                    = FinalClass(returned[output[i].source_line])

\* ------------------------------------------------ the workflow of the tools
MaxWorkflowIssues == 2

MaxCalls == 3

\* data/collected_{timestamp}.jsonl and data/results_{timestamp}.jsonl of
\* the latest collection or classification, a results file that this
\* program did not write, and the default output of the merge
CollectedName == "data/collected.jsonl"

ResultsName == "data/results.jsonl"

ForeignName == "results_other.jsonl"

MergedName == "issues_with_classifications.jsonl"

FileNames == {CollectedName, ResultsName, ForeignName, MergedName}

AbsentFile == [exists |-> FALSE, lines |-> <<>>]

FileOf(lines) == [exists |-> TRUE, lines |-> lines]

\* a collected issue: owner, repo (one part), number, no classification
IssueLine(n) == [number |-> n, kind |-> "issue", classified |-> FALSE]

\* a result record: repo of the form owner/repo, number, and the key
\* 'classification' unless the record lacks it
ResultLine(n, classified) == [number |-> n, kind |-> "result", classified |-> classified]

\* a merged issue: a collected issue with final_classification
MergedLine(n) == [number |-> n, kind |-> "merged", classified |-> TRUE]

\* result files not written by classify_bugs: some records may lack a key
ForeignFiles ==
    {AbsentFile} \cup
    {FileOf([i \in 1..Len(cs) |-> ResultLine(i, cs[i])]) :
        cs \in SeqsUpTo(BOOLEAN, MaxWorkflowIssues)}

InitWorkflow ==
    /\ pc = "agent"
    /\ \E foreign \in ForeignFiles :
          fs = [name \in FileNames |->
                   IF name = ForeignName THEN foreign ELSE AbsentFile]
    /\ last_call = NoCall
    /\ merges_ok = {}
    /\ calls = 0
    /\ IdleEvolution
    /\ IdleComposition
    /\ IdleHealth
    /\ IdleWindow
    /\ IdleTrack
    /\ IdleMerge
    /\ IdleBatch
    /\ IdleThresholds
    /\ IdleRisk
    /\ IdleCollect
    /\ IdleClassify

OtherGroups ==
    <<evoVars, compVars, healthVars, windowVars, trackVars, mergeVars, batchVars,
      thresholdVars, riskVars, collectVars, classifyVars>>

Called(tool, file, outcome) ==
    /\ last_call' = [tool |-> tool, file |-> file, outcome |-> outcome]
    /\ calls' = calls + 1

\* issue['owner'], issue['repo'], issue['number']: a result record has no owner
HasOwner(line) == line.kind \in {"issue", "merged"}

\* collected, or the classifications with a two-part repo, by number
RECURSIVE LoadByNumber(_, _, _, _)
LoadByNumber(lines, k, kinds, dict) ==
    IF k > Len(lines) THEN dict
    ELSE LoadByNumber(lines, k + 1, kinds,
             IF lines[k].kind \in kinds
             THEN DictPut(dict, lines[k].number, lines[k]) ELSE dict)

\* the lines the merge loop writes before it returns or raises:
\* result['classification'] raises KeyError on a record without that key
RECURSIVE MergeLoop(_, _, _, _)
MergeLoop(collected_dict, results_dict, k, written) ==
    IF k > Len(collected_dict) THEN [raised |-> FALSE, lines |-> written]
    ELSE LET key == collected_dict[k].key
         IN  IF /\ HasDictKey(results_dict, key)
                /\ ~ DictGet(results_dict, key).classified
             THEN [raised |-> TRUE, lines |-> written]
             ELSE MergeLoop(collected_dict, results_dict, k + 1,
                            Append(written, MergedLine(key)))

\* _safe_classify_bugs, classify_bugs
ClassifyBugsCall ==
    /\ pc = "agent"
    /\ calls < MaxCalls
    /\ \E valid \in BOOLEAN, n \in 0..MaxWorkflowIssues :
          IF ~ valid
          THEN /\ Called("classify_bugs", "", "rejected")
               /\ UNCHANGED fs
          ELSE IF n = 0
          THEN /\ Called("classify_bugs", "", "no_issues")
               /\ UNCHANGED fs
          ELSE /\ Called("classify_bugs", ResultsName, "ok")
               /\ fs' = [fs EXCEPT
                     ![CollectedName] = FileOf([i \in 1..n |-> IssueLine(i)]),
                     ![ResultsName] = FileOf([i \in 1..n |-> ResultLine(i, TRUE)])]
    /\ UNCHANGED <<pc, merges_ok, OtherGroups>>

\* _safe_collect_bugs, collect_bugs
CollectBugsCall ==
    /\ pc = "agent"
    /\ calls < MaxCalls
    /\ \E valid \in BOOLEAN, n \in 0..MaxWorkflowIssues :
          IF ~ valid
          THEN /\ Called("collect_bugs", "", "rejected")
               /\ UNCHANGED fs
          ELSE IF n = 0
          THEN /\ Called("collect_bugs", "", "no_issues")
               /\ UNCHANGED fs
          ELSE /\ Called("collect_bugs", CollectedName, "ok")
               /\ fs' = [fs EXCEPT
                     ![CollectedName] = FileOf([i \in 1..n |-> IssueLine(i)])]
    /\ UNCHANGED <<pc, merges_ok, OtherGroups>>

\* _safe_merge_classifications, merge_classifications
MergeCall ==
    /\ pc = "agent"
    /\ calls < MaxCalls
    /\ \E parts_ok \in BOOLEAN, c \in FileNames, r \in FileNames,
          o \in {MergedName, CollectedName} :
          IF ~ parts_ok \/ ~ fs[c].exists \/ ~ fs[r].exists
          THEN /\ Called("merge_classifications", o, "rejected")
               /\ UNCHANGED <<fs, merges_ok>>
          ELSE IF \E k \in 1..Len(fs[c].lines) : ~ HasOwner(fs[c].lines[k])
          THEN /\ Called("merge_classifications", o, "error")
               /\ UNCHANGED <<fs, merges_ok>>
          ELSE LET collected_dict ==
                       LoadByNumber(fs[c].lines, 1, {"issue", "merged"}, <<>>)
                   results_dict == LoadByNumber(fs[r].lines, 1, {"result"}, <<>>)
                   merge == MergeLoop(collected_dict, results_dict, 1, <<>>)
               IN  /\ fs' = [fs EXCEPT ![o] = FileOf(merge.lines)]
                   /\ IF merge.raised
                      THEN /\ Called("merge_classifications", o, "error")
                           /\ UNCHANGED merges_ok
                      ELSE /\ Called("merge_classifications", o, "ok")
                           /\ merges_ok' = merges_ok \cup {o}
    /\ UNCHANGED <<pc, OtherGroups>>

\* df['final_classification'] of tools.analysis needs a record with that key
Analyzable(file) ==
    /\ file.lines # <<>>
    /\ \A k \in 1..Len(file.lines) : file.lines[k].kind = "merged"

\* _safe_analyze_classifications, analyze_classifications
AnalyzeCall ==
    /\ pc = "agent"
    /\ calls < MaxCalls
    /\ \E input_file \in FileNames, returncode \in {0, 1} :
          IF ~ fs[input_file].exists
          THEN Called("analyze_classifications", input_file, "rejected")
          ELSE IF Analyzable(fs[input_file]) /\ returncode = 0
          THEN Called("analyze_classifications", input_file, "ok")
          ELSE Called("analyze_classifications", input_file, "failed")
    /\ UNCHANGED <<pc, fs, merges_ok, OtherGroups>>

NextWorkflow ==
    \/ ClassifyBugsCall
    \/ CollectBugsCall
    \/ MergeCall
    \/ AnalyzeCall

SpecWorkflow == InitWorkflow /\ [][NextWorkflow]_vars

\* a merge changes a file only when both of its input files existed
MergeWritesOnlyWithInputs ==
    (last_call'.tool = "merge_classifications" /\ fs' # fs) =>
        \E c \in FileNames, r \in FileNames : fs[c].exists /\ fs[r].exists

RejectedChangesNothing == last_call'.outcome = "rejected" => fs' = fs

AnalysisAfterMerge ==
    (/\ last_call.tool = "analyze_classifications"
     /\ last_call.file = MergedName
     /\ last_call.outcome = "ok") => MergedName \in merges_ok

\* C30: starting without a merged file, a successful analysis of
\* issues_with_classifications.jsonl is always preceded by a successful
\* merge; the merge writes an output file only when both of its input files
\* exist, and a rejected call changes no file.
C30_WorkflowOrder ==
    /\ [] AnalysisAfterMerge
    /\ [][MergeWritesOnlyWithInputs]_vars
    /\ [][RejectedChangesNothing]_vars

====
